---------------------------- MODULE Spec2Model ----------------------------
(***************************************************************************)
(* Model of the in-memory file system simulator of src/src/main.c.         *)
(*                                                                         *)
(* The C heap is modelled explicitly: FileEntry structures live at         *)
(* addresses 1..MaxEntries, content buffers at addresses 1..MaxBufs.       *)
(* free() removes an address from the set of allocated addresses but the   *)
(* bytes stay where they are, malloc() returns any address that is not     *)
(* allocated (so a freed address can be handed out again).  A dereference  *)
(* of a freed address is undefined behaviour: the command either crashes   *)
(* or goes on with whatever the address holds at that moment.  A NULL      *)
(* dereference crashes.                                                    *)
(*                                                                         *)
(* C strings (names, paths) are sequences of one-character strings; file   *)
(* content is a sequence of small integers, 0 being the NUL byte.          *)
(***************************************************************************)
EXTENDS Integers, Sequences, FiniteSets, TLC

(* ------------------------------ bounds --------------------------------- *)
MaxEntries == 4
MaxBufs == 3
MaxInode == 4      \* no entry is created once next_inode has passed it
MaxFd == 4         \* no file is opened once next_fd has passed it
MaxLinks == 2      \* no hard link is made of a file whose link_count has reached it
MaxGrow == 1       \* the long text is DEFAULT_FILE_SIZE + MaxGrow bytes
MaxSize == 150     \* no write through a descriptor grows a file beyond it

(* ------------------------- program constants --------------------------- *)
DEFAULT_FILE_SIZE == 100
FirstFd == 3
NULL == 0

Addr == 1..MaxEntries
BufAddr == 1..MaxBufs

VARIABLES
    mem,         \* Addr -> FileEntry structure (also what a freed address still holds)
    live,        \* allocated FileEntry addresses
    bufs,        \* BufAddr -> content buffer
    bufLive,     \* allocated content buffers
    root,        \* fs.root
    current,     \* fs.current
    open_files,  \* the OpenFile list, head first
    next_inode,
    next_fd,
    status,      \* "running", "crashed" (segfault / abort) or "hung" (endless loop or recursion)
    last         \* the command the interpreter executed last and what it printed

vars == <<mem, live, bufs, bufLive, root, current, open_files, next_inode, next_fd, status, last>>

(* ------------------------------ strings -------------------------------- *)
Slash == "/"

\* strtok(copie, "/") called until it returns NULL: the non-empty segments
RECURSIVE TokensFrom(_, _, _)
TokensFrom(path, i, acc) ==
    IF i > Len(path)
    THEN IF acc = <<>> THEN <<>> ELSE <<acc>>
    ELSE IF path[i] = Slash
         THEN (IF acc = <<>> THEN <<>> ELSE <<acc>>) \o TokensFrom(path, i + 1, <<>>)
         ELSE TokensFrom(path, i + 1, Append(acc, path[i]))

Tokens(path) == TokensFrom(path, 1, <<>>)

IsAbsolute(path) == Len(path) > 0 /\ path[1] = Slash

\* strrchr(dest, '/'): index of the last slash, 0 when there is none
LastSlash(s) ==
    LET I == {i \in 1..Len(s) : s[i] = Slash}
    IN IF I = {} THEN 0 ELSE CHOOSE i \in I : \A j \in I : j <= i

(* --------------------------- content buffers --------------------------- *)
\* A buffer of len bytes is kept as its bytes up to the last non-NUL byte
\* (pre); every byte after pre is NUL.
RECURSIVE Trim(_)
Trim(q) == IF q = <<>> THEN <<>>
           ELSE IF q[Len(q)] = 0 THEN Trim(SubSeq(q, 1, Len(q) - 1)) ELSE q

ByteAt(buf, i) == IF i <= Len(buf.pre) THEN buf.pre[i] ELSE 0

\* what printf("%s") shows: the bytes before the first NUL
CString(buf) ==
    LET Z == {i \in 1..Len(buf.pre) : buf.pre[i] = 0}
    IN IF Z = {} THEN buf.pre
       ELSE SubSeq(buf.pre, 1, (CHOOSE i \in Z : \A j \in Z : i <= j) - 1)

\* calloc(n, 1)
ZeroBuf(n) == [len |-> n, pre |-> <<>>]

\* The buffer after fs_write's realloc / memset / memcpy / terminator: newLen
\* is the allocated length, bytes clearFrom+1..clearTo are cleared by memset,
\* data lands after off bytes and the byte after term bytes is set to NUL.
\* A byte the allocation gained and nothing wrote reads as NUL.
WriteBuf(buf, newLen, clearFrom, clearTo, off, data, term) ==
    LET m0 == IF Len(buf.pre) > off + Len(data) THEN Len(buf.pre) ELSE off + Len(data)
        m == IF m0 < newLen THEN m0 ELSE newLen
        full == [i \in 1..m |->
                    IF i > off /\ i <= off + Len(data) THEN data[i - off]
                    ELSE IF i = term + 1 THEN 0
                    ELSE IF i > clearFrom /\ i <= clearTo THEN 0
                    ELSE ByteAt(buf, i)]
    IN [len |-> newLen, pre |-> Trim(full)]

(* ------------------------------ the state ------------------------------ *)
Cur == [mem |-> mem, live |-> live, bufs |-> bufs, bufLive |-> bufLive,
        root |-> root, current |-> current, open_files |-> open_files,
        next_inode |-> next_inode, next_fd |-> next_fd]

NewEntry(inode, is_symbol, origin, nom_origin, name, is_directory, size, content, link_count, perms, parent) ==
    [inode |-> inode, is_symbol |-> is_symbol, origin |-> origin,
     nom_origin |-> nom_origin, name |-> name, is_directory |-> is_directory,
     size |-> size, content |-> content, link_count |-> link_count,
     perms |-> perms, child |-> NULL, next |-> NULL, parent |-> parent]

\* what an address that was never allocated holds
Blank == NewEntry(0, 0, NULL, <<>>, <<>>, 0, 0, NULL, 0, 0, NULL)

(* ------------------------------ find_entry ----------------------------- *)
\* the while loop of find_entry; fuel bounds a walk over a list that a
\* corrupted heap has made circular
RECURSIVE find_loop(_, _, _, _)
find_loop(s, child, name, fuel) ==
    IF child = NULL THEN [r |-> NULL, ub |-> FALSE, hang |-> FALSE]
    ELSE IF fuel = 0 THEN [r |-> NULL, ub |-> FALSE, hang |-> TRUE]
    ELSE IF s.mem[child].name = name
         THEN [r |-> child, ub |-> child \notin s.live, hang |-> FALSE]
         ELSE LET rest == find_loop(s, s.mem[child].next, name, fuel - 1)
              IN [rest EXCEPT !.ub = @ \/ child \notin s.live]

find_entry(s, dir, name) ==
    IF dir = NULL THEN [r |-> NULL, ub |-> FALSE, hang |-> FALSE]
    ELSE IF s.mem[dir].is_directory = 0
         THEN [r |-> NULL, ub |-> dir \notin s.live, hang |-> FALSE]
         ELSE LET w == find_loop(s, s.mem[dir].child, name, MaxEntries + 1)
              IN [w EXCEPT !.ub = @ \/ dir \notin s.live]

(* ----------------------------- resolve_path ---------------------------- *)
RECURSIVE resolve_loop(_, _, _, _)
resolve_loop(s, courant, parent, toks) ==
    IF toks = <<>>
    THEN [r |-> courant, parent |-> parent, ub |-> FALSE, hang |-> FALSE]
    ELSE LET f == find_entry(s, courant, Head(toks))
         IN IF f.r = NULL
            THEN [r |-> NULL, parent |-> courant, ub |-> f.ub, hang |-> f.hang]
            ELSE LET rest == resolve_loop(s, f.r, courant, Tail(toks))
                 IN [rest EXCEPT !.ub = @ \/ f.ub]

resolve_path(s, path) ==
    resolve_loop(s, IF IsAbsolute(path) THEN s.root ELSE s.current, NULL, Tokens(path))

(* ------------------------------ build_path ----------------------------- *)
\* fault: "crash" for a NULL entry and for a parent chain that never reaches
\* an entry without parent (unbounded recursion, the stack overflows)
RECURSIVE build_path_rec(_, _, _)
build_path_rec(s, entry, fuel) ==
    IF entry = NULL THEN [path |-> <<>>, ub |-> FALSE, fault |-> "crash"]
    ELSE IF fuel = 0 THEN [path |-> <<>>, ub |-> FALSE, fault |-> "crash"]
    ELSE IF s.mem[entry].parent = NULL
         THEN [path |-> <<Slash>>, ub |-> entry \notin s.live, fault |-> "none"]
         ELSE LET p == build_path_rec(s, s.mem[entry].parent, fuel - 1)
              IN [path |-> IF p.path = <<Slash>>
                           THEN <<Slash>> \o s.mem[entry].name
                           ELSE p.path \o <<Slash>> \o s.mem[entry].name,
                  ub |-> p.ub \/ entry \notin s.live,
                  fault |-> p.fault]

build_path(s, entry) == build_path_rec(s, entry, MaxEntries + 1)

(* ------------------------------ add_entry ------------------------------ *)
\* entry is a structure the caller has just filled in at address a
add_entry(s, dir, a) ==
    IF dir = NULL \/ s.mem[dir].is_directory = 0
    THEN s
    ELSE [s EXCEPT !.mem = [@ EXCEPT ![a].next = s.mem[dir].child,
                                     ![a].parent = dir,
                                     ![dir].child = a]]


(* --------------------------- command results --------------------------- *)
\* s: the state the function leaves; res: the kind of message it printed;
\* out: the lines of file content it printed; ub: it dereferenced freed
\* memory on the way; fault: "crash" or "hang" when it never returns
Done(s, res, out, ub) == [s |-> s, res |-> res, out |-> out, ub |-> ub, fault |-> "none"]

Fault(s, kind, ub) == [s |-> s, res |-> kind, out |-> <<>>, ub |-> ub, fault |-> kind]

(* --------------------------- child lists ------------------------------- *)
\* the entries of the list starting at c, in list order
RECURSIVE list_from(_, _, _)
list_from(s, c, fuel) ==
    IF c = NULL \/ fuel = 0 THEN <<>>
    ELSE <<c>> \o list_from(s, s.mem[c].next, fuel - 1)

ChildList(s, dir) == list_from(s, s.mem[dir].child, MaxEntries + 1)

Range(q) == {q[i] : i \in 1..Len(q)}

\* the loop "courant = &dir->child; while (*courant) ..." of fs_rmdir, fs_rm
\* and fs_mv: takes entry out of dir's list when it is there
unlink_entry(s, dir, entry) ==
    LET L == ChildList(s, dir)
        I == {i \in 1..Len(L) : L[i] = entry}
    IN IF I = {}
       THEN [s |-> s, found |-> FALSE,
             ub |-> dir \notin s.live \/ ~(Range(L) \subseteq s.live),
             hang |-> Len(L) > MaxEntries]
       ELSE LET i == CHOOSE k \in I : \A j \in I : k <= j
            IN [s |-> [s EXCEPT !.mem =
                         IF i = 1
                         THEN [@ EXCEPT ![dir].child = s.mem[entry].next]
                         ELSE [@ EXCEPT ![L[i - 1]].next = s.mem[entry].next]],
                found |-> TRUE,
                ub |-> dir \notin s.live \/ ~({L[k] : k \in 1..i} \subseteq s.live),
                hang |-> FALSE]

(* --------------------------- free_file_entry --------------------------- *)
\* the entries free_file_entry(entry) frees: entry and, below a directory,
\* the entries of its child list, recursively
RECURSIVE subtree(_, _, _)
subtree(s, entry, fuel) ==
    IF entry = NULL \/ fuel = 0 THEN {}
    ELSE {entry} \cup
         (IF s.mem[entry].is_directory = 0 THEN {}
          ELSE UNION {subtree(s, c, fuel - 1) : c \in Range(ChildList(s, entry))})

\* free_file_entry(entry): frees every entry of the subtree and every
\* content buffer an entry of it points to; ub when something is freed twice
free_file_entry(s, entry) ==
    LET F == subtree(s, entry, MaxEntries + 1)
        owners(b) == {e \in F : s.mem[e].content = b}
        B == {s.mem[e].content : e \in F} \ {NULL}
    IN [s |-> [s EXCEPT !.live = @ \ F, !.bufLive = @ \ B],
        ub |-> ~(F \subseteq s.live) \/ ~(B \subseteq s.bufLive)
               \/ \E b \in B : Cardinality(owners(b)) > 1]

(* -------------------------------- mkfs --------------------------------- *)
\* a: the address malloc returns for the new root
\* mkfs that starts the inode numbers again at 1
mkfs_restarts_inodes(s, a) ==
    LET f == IF s.root # NULL THEN free_file_entry(s, s.root) ELSE [s |-> s, ub |-> FALSE]
        s1 == f.s
        s2 == [s1 EXCEPT
                 !.mem = [@ EXCEPT ![a] = NewEntry(1, 0, NULL, @.nom_origin,
                                                   <<Slash>>, 1, 0, NULL, 1, 7, NULL)],
                 !.live = @ \cup {a},
                 !.root = a,
                 !.current = a,
                 !.open_files = <<>>,
                 !.next_fd = FirstFd,
                 !.next_inode = 2]
    IN Done(s2, "ok", <<>>, f.ub)

mkfs(s, a) ==
    LET f == IF s.root # NULL THEN free_file_entry(s, s.root) ELSE [s |-> s, ub |-> FALSE]
        s1 == f.s
        s2 == [s1 EXCEPT
                 !.mem = [@ EXCEPT ![a] = NewEntry(s.next_inode, 0, NULL, @.nom_origin,
                                                   <<Slash>>, 1, 0, NULL, 1, 7, NULL)],
                 !.live = @ \cup {a},
                 !.root = a,
                 !.current = a,
                 !.open_files = <<>>,
                 !.next_fd = FirstFd,
                 !.next_inode = @ + 1]
    IN Done(s2, "ok", <<>>, f.ub)

(* ------------------------------- malloc ------------------------------- *)
\* The addresses malloc can return for a FileEntry: any address that was
\* allocated and freed, or an address that was never handed out.  The
\* addresses never handed out are interchangeable, so the lowest stands for
\* them all.
Lowest(S) == IF S = {} THEN {} ELSE {CHOOSE x \in S : \A y \in S : x <= y}

FreeAddrs(s, freed) ==
    LET used == {x \in Addr : x \in s.live \/ s.mem[x] # Blank}
    IN ((used \ s.live) \cup freed) \cup Lowest(Addr \ used)

FreeBufs(s) ==
    LET used == {b \in BufAddr : b \in s.bufLive \/ s.bufs[b] # ZeroBuf(0)}
    IN (used \ s.bufLive) \cup Lowest(BufAddr \ used)

\* the addresses malloc can return for the root once the old tree is freed
MkfsFree(s) == FreeAddrs(s, subtree(s, s.root, MaxEntries + 1))

(* ----------------------------- open files ------------------------------ *)
\* the record of the OpenFile list whose fd is fd: its index, 0 when absent
FindOpen(s, fd) ==
    LET I == {i \in 1..Len(s.open_files) : s.open_files[i].fd = fd}
    IN IF I = {} THEN 0 ELSE CHOOSE i \in I : \A j \in I : i <= j

\* fs_open that numbers the new record after the length of the table
\* instead of after the counter
fs_open_counts_table(s, filename, flag) ==
    LET f == find_entry(s, s.current, filename)
        entry == f.r
        fd == FirstFd + Len(s.open_files)
        fail(res) == [s |-> s, fd |-> -1, res |-> res, ub |-> f.ub, hang |-> f.hang]
    IN IF entry = NULL THEN fail("NotFound")
       ELSE IF s.mem[entry].is_directory # 0 THEN fail("IsADirectory")
       ELSE IF flag \in {1, 3} /\ (s.mem[entry].perms \div 4) % 2 = 0
            THEN fail("PermissionDenied")
       ELSE IF flag \in {2, 3} /\ (s.mem[entry].perms \div 2) % 2 = 0
            THEN fail("PermissionDenied")
       ELSE [s |-> [s EXCEPT !.open_files =
                        <<[fd |-> fd, file |-> entry, flags |-> flag, offset |-> 0]>> \o @,
                      !.next_fd = @ + 1],
             fd |-> fd, res |-> "ok", ub |-> f.ub, hang |-> FALSE]

\* fd: the descriptor returned, -1 on failure
fs_open(s, filename, flag) ==
    LET f == find_entry(s, s.current, filename)
        entry == f.r
        fail(res) == [s |-> s, fd |-> -1, res |-> res, ub |-> f.ub, hang |-> f.hang]
    IN IF entry = NULL THEN fail("NotFound")
       ELSE IF s.mem[entry].is_directory # 0 THEN fail("IsADirectory")
       ELSE IF flag \in {1, 3} /\ (s.mem[entry].perms \div 4) % 2 = 0
            THEN fail("PermissionDenied")
       ELSE IF flag \in {2, 3} /\ (s.mem[entry].perms \div 2) % 2 = 0
            THEN fail("PermissionDenied")
       ELSE [s |-> [s EXCEPT !.open_files =
                        <<[fd |-> s.next_fd, file |-> entry, flags |-> flag, offset |-> 0]>> \o @,
                      !.next_fd = @ + 1],
             fd |-> s.next_fd, res |-> "ok", ub |-> f.ub, hang |-> FALSE]

\* fs_write that grows the buffer and leaves file->size as it was
fs_write_stale_size(s, fd, data, nb, moved) ==
    LET i == FindOpen(s, fd)
        of == s.open_files[i]
        e == s.mem[of.file]
        new_size == of.offset + Len(data)
        fresh == e.content = NULL \/ moved
        addr == IF fresh /\ new_size > e.size THEN nb ELSE e.content
        old == IF e.content = NULL THEN ZeroBuf(0) ELSE s.bufs[e.content]
        len == IF new_size > e.size THEN new_size + 1 ELSE old.len
    IN IF i = 0 \/ of.flags \notin {2, 3} \/ (e.perms \div 2) % 2 = 0
       THEN [s |-> s, ret |-> -1, res |-> "PermissionDenied", ub |-> FALSE, fault |-> "none"]
       ELSE [s |-> [s EXCEPT !.bufs = [@ EXCEPT ![addr] =
                                         WriteBuf(old, len, 0, 0, of.offset, data, new_size)],
                             !.bufLive = (@ \ {e.content}) \cup {addr},
                             !.mem = [@ EXCEPT ![of.file].content = addr],
                             !.open_files = [@ EXCEPT ![i].offset = new_size]],
             ret |-> Len(data), res |-> "ok", ub |-> FALSE, fault |-> "none"]

\* fs_write whose memset clears the file from its first byte when it grows
fs_write_clears_file(s, fd, data, nb, moved) ==
    LET i == FindOpen(s, fd)
        of == s.open_files[i]
        e == s.mem[of.file]
        new_size == of.offset + Len(data)
        grows == new_size > e.size
        fresh == grows /\ (e.content = NULL \/ moved)
        addr == IF fresh THEN nb ELSE e.content
        old == IF e.content = NULL THEN ZeroBuf(0) ELSE s.bufs[e.content]
        size == IF grows THEN new_size ELSE e.size
    IN IF i = 0 \/ of.flags \notin {2, 3} \/ (e.perms \div 2) % 2 = 0
       THEN [s |-> s, ret |-> -1, res |-> "PermissionDenied", ub |-> FALSE, fault |-> "none"]
       ELSE [s |-> [s EXCEPT !.bufs = [@ EXCEPT ![addr] =
                                         WriteBuf(old, IF grows THEN size + 1 ELSE old.len,
                                                  0, IF grows THEN size ELSE 0,
                                                  of.offset, data, size)],
                             !.bufLive = IF fresh THEN (@ \ {e.content}) \cup {nb} ELSE @,
                             !.mem = [@ EXCEPT ![of.file].content = addr,
                                               ![of.file].size = size],
                             !.open_files = [@ EXCEPT ![i].offset = new_size]],
             ret |-> Len(data), res |-> "ok", ub |-> FALSE, fault |-> "none"]

\* fs_write that relies on the permission test of fs_open and has none of its own
fs_write_trusts_open(s, fd, data, nb, moved) ==
    LET i == FindOpen(s, fd)
        of == s.open_files[i]
        e == s.mem[of.file]
        new_size == of.offset + Len(data)
        grows == new_size > e.size
        fresh == grows /\ (e.content = NULL \/ moved)
        addr == IF fresh THEN nb ELSE e.content
        old == IF e.content = NULL THEN ZeroBuf(0) ELSE s.bufs[e.content]
        size == IF grows THEN new_size ELSE e.size
    IN IF i = 0 \/ of.flags \notin {2, 3}
       THEN [s |-> s, ret |-> -1, res |-> "InvalidDescriptor", ub |-> FALSE, fault |-> "none"]
       ELSE [s |-> [s EXCEPT !.bufs = [@ EXCEPT ![addr] =
                                         WriteBuf(old, IF grows THEN size + 1 ELSE old.len,
                                                  e.size, size, of.offset, data, size)],
                             !.bufLive = IF fresh THEN (@ \ {e.content}) \cup {nb} ELSE @,
                             !.mem = [@ EXCEPT ![of.file].content = addr,
                                               ![of.file].size = size],
                             !.open_files = [@ EXCEPT ![i].offset = new_size]],
             ret |-> Len(data), res |-> "ok", ub |-> FALSE, fault |-> "none"]

\* nb: the address realloc returns when it allocates or moves the buffer;
\* moved: whether realloc moves a buffer it grows.  ret: bytes written or -1
fs_write(s, fd, data, nb, moved) ==
    LET i == FindOpen(s, fd)
        of == s.open_files[i]
        file == of.file
        e == s.mem[file]
        data_len == Len(data)
        new_size == of.offset + data_len
        fail(res, ub) == [s |-> s, ret |-> -1, res |-> res, ub |-> ub, fault |-> "none"]
    IN IF i = 0 THEN fail("InvalidDescriptor", FALSE)
       ELSE IF of.flags \notin {2, 3} THEN fail("NotOpenForWriting", FALSE)
       ELSE IF (e.perms \div 2) % 2 = 0 THEN fail("PermissionDenied", file \notin s.live)
       ELSE IF new_size > e.size
       THEN \* realloc, memset of the grown part, memcpy, terminator
            LET fresh == e.content = NULL \/ moved
                addr == IF fresh THEN nb ELSE e.content
                old == IF e.content = NULL THEN ZeroBuf(0) ELSE s.bufs[e.content]
                nbuf == WriteBuf(old, new_size + 1, e.size, new_size, of.offset, data, new_size)
            IN [s |-> [s EXCEPT !.bufs = [@ EXCEPT ![addr] = nbuf],
                                !.bufLive = IF fresh THEN (@ \ {e.content}) \cup {nb} ELSE @,
                                !.mem = [@ EXCEPT ![file].content = addr,
                                                  ![file].size = new_size],
                                !.open_files = [@ EXCEPT ![i].offset = new_size]],
                ret |-> data_len, res |-> "ok",
                ub |-> file \notin s.live
                       \/ (e.content # NULL /\ e.content \notin s.bufLive)
                       \/ (e.content = NULL /\ of.offset > 0),
                fault |-> "none"]
       ELSE IF e.content = NULL
       THEN [s |-> s, ret |-> -1, res |-> "crash", ub |-> file \notin s.live, fault |-> "crash"]
       ELSE \* memcpy in place, terminator at content[size]
            LET old == s.bufs[e.content]
                nbuf == WriteBuf(old, old.len, 0, 0, of.offset, data, e.size)
            IN [s |-> [s EXCEPT !.bufs = [@ EXCEPT ![e.content] = nbuf],
                                !.open_files = [@ EXCEPT ![i].offset = new_size]],
                ret |-> data_len, res |-> "ok",
                ub |-> file \notin s.live \/ e.content \notin s.bufLive
                       \/ e.size + 1 > old.len,
                fault |-> "none"]

\* whether fs_write(s, fd, data, ...) calls realloc for a new address
NeedsBuf(s, fd, data) ==
    LET i == FindOpen(s, fd)
    IN i # 0 /\ s.open_files[i].offset + Len(data) > s.mem[s.open_files[i].file].size

\* fs_lseek without the test of the offset against the size of the file
fs_lseek_past_end(s, fd, offset) ==
    LET i == FindOpen(s, fd)
    IN IF i = 0 THEN [s |-> s, ret |-> -1, res |-> "InvalidDescriptor", ub |-> FALSE]
       ELSE IF offset < 0
            THEN [s |-> s, ret |-> -1, res |-> "InvalidOffset", ub |-> FALSE]
       ELSE [s |-> [s EXCEPT !.open_files = [@ EXCEPT ![i].offset = offset]],
             ret |-> offset, res |-> "ok", ub |-> FALSE]

fs_lseek(s, fd, offset) ==
    LET i == FindOpen(s, fd)
    IN IF i = 0 THEN [s |-> s, ret |-> -1, res |-> "InvalidDescriptor", ub |-> FALSE]
       ELSE IF offset < 0 \/ offset > s.mem[s.open_files[i].file].size
            THEN [s |-> s, ret |-> -1, res |-> "InvalidOffset",
                  ub |-> s.open_files[i].file \notin s.live]
       ELSE [s |-> [s EXCEPT !.open_files = [@ EXCEPT ![i].offset = offset]],
             ret |-> offset, res |-> "ok", ub |-> s.open_files[i].file \notin s.live]

\* fs_close that reports success and leaves the record in the table
fs_close_keeps_record(s, fd) ==
    LET i == FindOpen(s, fd)
    IN IF i = 0 THEN [s |-> s, ret |-> -1, res |-> "InvalidDescriptor"]
       ELSE [s |-> s, ret |-> 0, res |-> "ok"]

fs_close(s, fd) ==
    LET i == FindOpen(s, fd)
    IN IF i = 0 THEN [s |-> s, ret |-> -1, res |-> "InvalidDescriptor"]
       ELSE [s |-> [s EXCEPT !.open_files =
                        SubSeq(@, 1, i - 1) \o SubSeq(@, i + 1, Len(@))],
             ret |-> 0, res |-> "ok"]

(* ------------------------- mkdir, rmdir, cd ---------------------------- *)
\* fs_mkdir without its lookup of the name in the current directory
fs_mkdir_unchecked(s, dirname, a) ==
    LET s1 == [s EXCEPT
                 !.mem = [@ EXCEPT ![a] = NewEntry(s.next_inode, 0, NULL, @.nom_origin,
                                        dirname, 1, 0, NULL, 1, 7, @.parent)],
                 !.live = @ \cup {a},
                 !.next_inode = @ + 1]
    IN IF s.current = NULL THEN Done(s1, "ok", <<>>, FALSE)
       ELSE Done(add_entry(s1, s.current, a), "ok", <<>>, s.current \notin s.live)

\* a: the address malloc returns for the new entry
fs_mkdir(s, dirname, a) ==
    LET f == find_entry(s, s.current, dirname)
    IN IF f.hang THEN Fault(s, "hang", f.ub)
       ELSE IF f.r # NULL THEN Done(s, "AlreadyExists", <<>>, f.ub)
       ELSE LET s1 == [s EXCEPT
                         !.mem = [@ EXCEPT ![a] = NewEntry(s.next_inode, 0, NULL, @.nom_origin,
                                                dirname, 1, 0, NULL, 1, 7, @.parent)],
                         !.live = @ \cup {a},
                         !.next_inode = @ + 1]
            IN IF s.current = NULL THEN Done(s1, "ok", <<>>, f.ub)
               ELSE Done(add_entry(s1, s.current, a), "ok", <<>>,
                         f.ub \/ s.current \notin s.live)

fs_rmdir(s, dirname) ==
    LET r == resolve_path(s, dirname)
        dir == r.r
    IN IF r.hang THEN Fault(s, "hang", r.ub)
       ELSE IF dir = NULL \/ s.mem[dir].is_directory = 0 THEN Done(s, "NotFound", <<>>, r.ub)
       ELSE IF s.mem[dir].child # NULL THEN Done(s, "NotEmpty", <<>>, r.ub)
       ELSE IF s.mem[dir].parent = NULL THEN Done(s, "IsRoot", <<>>, r.ub)
       ELSE LET u == unlink_entry(s, s.mem[dir].parent, dir)
            IN IF u.hang THEN Fault(s, "hang", r.ub \/ u.ub)
               ELSE IF ~u.found THEN Done(s, "none", <<>>, r.ub \/ u.ub)
               ELSE Done([u.s EXCEPT !.live = @ \ {dir}], "ok", <<>>, r.ub \/ u.ub)

DotDot == <<".", ".">>

fs_cd(s, dirname) ==
    LET copie == s.current
    IN IF dirname = DotDot
       THEN IF s.current = NULL THEN Fault(s, "crash", FALSE)
            ELSE LET s1 == [s EXCEPT !.current = IF s.mem[s.current].parent # NULL
                                                 THEN s.mem[s.current].parent ELSE s.root]
                     b == build_path(s1, s1.current)
                 IN IF b.fault # "none" THEN Fault(s, b.fault, b.ub \/ s.current \notin s.live)
                    ELSE Done(s1, "ok", <<>>, b.ub \/ s.current \notin s.live)
       ELSE LET r == resolve_path(s, dirname)
                dir == r.r
            IN IF r.hang THEN Fault(s, "hang", r.ub)
               ELSE IF dir = NULL \/ s.mem[dir].is_directory = 0
                    THEN Done(s, "NotFound", <<>>, r.ub)
               ELSE IF s.mem[dir].is_symbol # 0
               THEN LET o == s.mem[dir].origin
                        s1 == [s EXCEPT !.current = o]
                    IN IF o = NULL THEN Fault(s, "crash", r.ub)
                       ELSE LET r2 == resolve_path(s1, s.mem[o].name)
                                ub2 == r.ub \/ r2.ub \/ o \notin s.live
                            IN IF r2.hang THEN Fault(s, "hang", ub2)
                               ELSE IF r2.r = NULL
                               THEN Done([s EXCEPT !.mem = [@ EXCEPT ![dir].is_symbol = 2],
                                                   !.current = copie],
                                         "DanglingLink", <<>>, ub2)
                               ELSE LET b == build_path(s1, o)
                                    IN IF b.fault # "none" THEN Fault(s, b.fault, ub2 \/ b.ub)
                                       ELSE Done(s1, "ok", <<>>, ub2 \/ b.ub)
               ELSE LET s1 == [s EXCEPT !.current = dir]
                        b == build_path(s1, dir)
                    IN IF b.fault # "none" THEN Fault(s, b.fault, r.ub \/ b.ub)
                       ELSE Done(s1, "ok", <<>>, r.ub \/ b.ub)

(* ------------------------------- cat ----------------------------------- *)
\* printf("%s\n", content) of the entry at address e, when it has content
PrintContent(s, e) ==
    IF s.mem[e].content = NULL THEN <<>> ELSE <<CString(s.bufs[s.mem[e].content])>>

ContentUb(s, e) == s.mem[e].content # NULL /\ s.mem[e].content \notin s.bufLive

fs_cat(s, filename) ==
    LET copie == s.current
        r == resolve_path(s, filename)
        file == r.r
    IN IF r.hang THEN Fault(s, "hang", r.ub)
       ELSE IF file = NULL \/ s.mem[file].is_directory # 0 THEN Done(s, "NotFound", <<>>, r.ub)
       ELSE IF s.mem[file].is_symbol # 0
       THEN LET o == s.mem[file].origin
            IN IF o = NULL THEN Fault(s, "crash", r.ub)
               ELSE LET s1 == [s EXCEPT !.current = s.mem[o].parent]
                        r2 == resolve_path(s1, s.mem[o].name)
                        ub2 == r.ub \/ r2.ub \/ o \notin s.live
                    IN IF r2.hang THEN Fault(s, "hang", ub2)
                       ELSE IF r2.r = NULL
                       THEN Done([s EXCEPT !.mem = [@ EXCEPT ![file].is_symbol = 2]],
                                 "DanglingLink", <<>>, ub2)
                       ELSE Done([s EXCEPT !.mem = [@ EXCEPT ![file].is_symbol = 1]],
                                 "ok", PrintContent(s, o), ub2 \/ ContentUb(s, o))
       ELSE Done(s, "ok", PrintContent(s, file), r.ub \/ ContentUb(s, file))

(* ------------------------------ touch ---------------------------------- *)
\* a: the address malloc returns for the entry, b: the one calloc returns
\* for its content
fs_touch(s, filename, a, b) ==
    LET f == find_entry(s, s.current, filename)
    IN IF f.hang THEN Fault(s, "hang", f.ub)
       ELSE IF f.r # NULL THEN Done(s, "AlreadyExists", <<>>, f.ub)
       ELSE LET s1 == [s EXCEPT
                         !.mem = [@ EXCEPT ![a] = NewEntry(s.next_inode, 0, NULL, @.nom_origin,
                                                filename, 0, DEFAULT_FILE_SIZE, b, 1, 6,
                                                @.parent)],
                         !.live = @ \cup {a},
                         !.bufs = [@ EXCEPT ![b] = ZeroBuf(DEFAULT_FILE_SIZE + 1)],
                         !.bufLive = @ \cup {b},
                         !.next_inode = @ + 1]
            IN IF s.current = NULL THEN Done(s1, "ok", <<>>, f.ub)
               ELSE Done(add_entry(s1, s.current, a), "ok", <<>>,
                         f.ub \/ s.current \notin s.live)

(* ---------------------------- write command ---------------------------- *)
\* the part of fs_write_cmd after fs_open: s1 is the state fs_open left
write_tail(s1, copie, op, texte, nb, moved, ub) ==
    IF op.hang THEN Fault(s1, "hang", ub \/ op.ub)
    ELSE IF op.fd < 0 THEN Done(op.s, op.res, <<>>, ub \/ op.ub)
    ELSE LET w == fs_write(op.s, op.fd, texte, nb, moved)
             c == fs_close(w.s, op.fd)
         IN IF w.fault # "none" THEN Fault(s1, w.fault, ub \/ op.ub \/ w.ub)
            ELSE Done([c.s EXCEPT !.current = copie], w.res, <<>>, ub \/ op.ub \/ w.ub)

fs_write_cmd(s, filename, texte, nb, moved) ==
    LET copie == s.current
        r == resolve_path(s, filename)
        file == r.r
    IN IF r.hang THEN Fault(s, "hang", r.ub)
       ELSE IF file = NULL THEN Fault(s, "crash", r.ub)
       ELSE IF s.mem[file].is_symbol # 0
       THEN LET o == s.mem[file].origin
            IN IF o = NULL THEN Fault(s, "crash", r.ub)
               ELSE LET s1 == [s EXCEPT !.current = s.mem[o].parent]
                        r2 == resolve_path(s1, s.mem[o].name)
                        ub2 == r.ub \/ r2.ub \/ o \notin s.live
                    IN IF r2.hang THEN Fault(s, "hang", ub2)
                       ELSE IF r2.r = NULL
                       THEN Done([s EXCEPT !.mem = [@ EXCEPT ![file].is_symbol = 2]],
                                 "DanglingLink", <<>>, ub2)
                       ELSE LET op == fs_open(s1, s.mem[o].name, 2)
                                s2 == [op.s EXCEPT !.mem = [@ EXCEPT ![file].is_symbol = 1]]
                            IN write_tail(s1, copie, [op EXCEPT !.s = s2], texte, nb, moved, ub2)
       ELSE write_tail(s, copie, fs_open(s, filename, 2), texte, nb, moved, r.ub)

\* whether fs_write_cmd reaches a realloc that needs a new address
WriteNeedsBuf(s, filename, texte) ==
    LET r == resolve_path(s, filename)
    IN r.r # NULL /\ Len(texte) > DEFAULT_FILE_SIZE

(* ------------------------------- chmod --------------------------------- *)
\* atoi, as the C library of the build computes it: an optional sign, then
\* the decimal digits up to the first character that is none, converted as
\* a long and cut to the 32 bits of an int (for a numeral below 2^63; the
\* value is kept as two halves of 16 bits)
Digits == <<"0", "1", "2", "3", "4", "5", "6", "7", "8", "9">>

DigitOf(c) == (CHOOSE d \in 1..10 : Digits[d] = c) - 1

RECURSIVE atoi_digits(_, _, _, _)
atoi_digits(str, i, hi, lo) ==
    IF i > Len(str) \/ str[i] \notin Range(Digits) THEN [hi |-> hi, lo |-> lo]
    ELSE LET l == lo * 10 + DigitOf(str[i])
         IN atoi_digits(str, i + 1, (hi * 10 + l \div 65536) % 65536, l % 65536)

atoi(str) ==
    LET signed == Len(str) > 0 /\ str[1] \in {"-", "+"}
        w == atoi_digits(str, IF signed THEN 2 ELSE 1, 0, 0)
        v == IF w.hi >= 32768 THEN (w.hi - 65536) * 65536 + w.lo ELSE w.hi * 65536 + w.lo
    IN IF signed /\ str[1] = "-" /\ v # (-32768) * 65536 THEN -v ELSE v

fs_chmod(s, perm_str, path) ==
    LET perm == atoi(perm_str)
        r == resolve_path(s, path)
        entry == r.r
    IN IF r.hang THEN Fault(s, "hang", r.ub)
       ELSE IF entry = NULL THEN Done(s, "NotFound", <<>>, r.ub)
       ELSE IF s.mem[entry].is_symbol \in {1, 2} THEN Done(s, "IsSymbolicLink", <<>>, r.ub)
       ELSE IF perm > -1 /\ perm < 8
            THEN Done([s EXCEPT !.mem = [@ EXCEPT ![entry].perms = perm]], "ok", <<>>, r.ub)
       ELSE Done(s, "InvalidPermissionValue", <<>>, r.ub)

(* ------------------------------ ln, ln -s ------------------------------ *)
fs_ln(s, src, dest, a) ==
    LET r == resolve_path(s, src)
        file == r.r
        f == find_entry(s, s.current, dest)
    IN IF r.hang THEN Fault(s, "hang", r.ub)
       ELSE IF file = NULL \/ s.mem[file].is_directory # 0 THEN Done(s, "NotFound", <<>>, r.ub)
       ELSE IF f.hang THEN Fault(s, "hang", r.ub \/ f.ub)
       ELSE IF f.r # NULL THEN Done(s, "AlreadyExists", <<>>, r.ub \/ f.ub)
       ELSE LET e == s.mem[file]
                s1 == [s EXCEPT
                         !.mem = [@ EXCEPT ![file].link_count = @ + 1,
                                           ![a] = NewEntry(e.inode, 0, NULL, @.nom_origin, dest,
                                                           0, e.size, e.content,
                                                           e.link_count + 1, e.perms, @.parent)],
                         !.live = @ \cup {a}]
            IN IF s.current = NULL THEN Done(s1, "ok", <<>>, r.ub \/ f.ub)
               ELSE Done(add_entry(s1, s.current, a), "ok", <<>>,
                         r.ub \/ f.ub \/ s.current \notin s.live)

fs_ln_s(s, src, dest, a) ==
    LET r == resolve_path(s, src)
        file == r.r
        f == find_entry(s, s.current, dest)
    IN IF r.hang THEN Fault(s, "hang", r.ub)
       ELSE IF file = NULL THEN Done(s, "NotFound", <<>>, r.ub)
       ELSE IF f.hang THEN Fault(s, "hang", r.ub \/ f.ub)
       ELSE IF f.r # NULL THEN Done(s, "AlreadyExists", <<>>, r.ub \/ f.ub)
       ELSE LET e == s.mem[file]
                b == build_path(s, file)
                s1 == [s EXCEPT
                         !.mem = [@ EXCEPT ![a] = NewEntry(s.next_inode, 1, file, b.path, dest,
                                                           e.is_directory, e.size, NULL,
                                                           1, 7, s.current)],
                         !.live = @ \cup {a},
                         !.next_inode = @ + 1]
            IN IF b.fault # "none" THEN Fault(s, b.fault, r.ub \/ f.ub \/ b.ub)
               ELSE IF s.current = NULL THEN Done(s1, "ok", <<>>, r.ub \/ f.ub \/ b.ub)
               ELSE Done(add_entry(s1, s.current, a), "ok", <<>>,
                         r.ub \/ f.ub \/ b.ub \/ s.current \notin s.live)

(* ------------------------------- rm, mv -------------------------------- *)
\* fs_rm that marks Dead, at once, every symbolic link to the entry it removes
fs_rm_marks_links(s, path) ==
    LET r == resolve_path(s, path)
        entry == r.r
        parent == r.parent
    IN IF entry = NULL THEN Done(s, "NotFound", <<>>, FALSE)
       ELSE IF parent = NULL THEN Done(s, "IsRoot", <<>>, FALSE)
       ELSE IF s.mem[entry].is_directory # 0 /\ s.mem[entry].child # NULL
            THEN Done(s, "NotEmpty", <<>>, FALSE)
       ELSE LET u == unlink_entry(s, parent, entry)
                c == s.mem[entry].content
            IN Done([u.s EXCEPT !.live = @ \ {entry}, !.bufLive = @ \ {c},
                                !.mem = [x \in Addr |->
                                           IF @[x].is_symbol # 0 /\ @[x].origin = entry
                                           THEN [@[x] EXCEPT !.is_symbol = 2] ELSE @[x]]],
                    "ok", <<>>, FALSE)

fs_rm(s, path) ==
    LET r == resolve_path(s, path)
        entry == r.r
        parent == r.parent
    IN IF r.hang THEN Fault(s, "hang", r.ub)
       ELSE IF entry = NULL THEN Done(s, "NotFound", <<>>, r.ub)
       ELSE IF parent = NULL THEN Done(s, "IsRoot", <<>>, r.ub)
       ELSE IF s.mem[entry].is_directory # 0 /\ s.mem[entry].child # NULL
            THEN Done(s, "NotEmpty", <<>>, r.ub)
       ELSE LET u == unlink_entry(s, parent, entry)
                c == s.mem[entry].content
            IN IF u.hang THEN Fault(s, "hang", r.ub \/ u.ub)
               ELSE IF ~u.found THEN Done(s, "none", <<>>, r.ub \/ u.ub)
               ELSE Done([u.s EXCEPT !.live = @ \ {entry}, !.bufLive = @ \ {c}],
                         "ok", <<>>, r.ub \/ u.ub \/ (c # NULL /\ c \notin s.bufLive))

\* fs_mv that moves the target of a symbolic link in place of the link
fs_mv_follows_link(s, src, dest) ==
    LET r == resolve_path(s, src)
        linked == r.r # NULL /\ s.mem[r.r].is_symbol # 0 /\ s.mem[r.r].origin # NULL
        entry == IF linked THEN s.mem[r.r].origin ELSE r.r
        parent == IF linked THEN s.mem[entry].parent ELSE r.parent
        k == LastSlash(dest)
        dest_copy == SubSeq(dest, 1, k - 1)
        new_name == SubSeq(dest, k + 1, Len(dest))
        r2 == resolve_path(s, dest_copy)
        new_parent == IF k # 0 THEN r2.r ELSE parent
    IN IF entry = NULL THEN Done(s, "NotFound", <<>>, FALSE)
       ELSE IF k # 0 /\ (new_parent = NULL \/ s.mem[new_parent].is_directory = 0)
            THEN Done(s, "InvalidDestination", <<>>, FALSE)
       ELSE IF parent = NULL THEN Fault(s, "crash", FALSE)
       ELSE LET u == unlink_entry(s, parent, entry)
                s1 == [u.s EXCEPT !.mem = [@ EXCEPT ![entry].name = new_name,
                                                    ![entry].parent = new_parent]]
            IN Done(add_entry(s1, new_parent, entry), "ok", <<>>, FALSE)

fs_mv(s, src, dest) ==
    LET r == resolve_path(s, src)
        entry == r.r
        parent == r.parent
        k == LastSlash(dest)
        dest_copy == SubSeq(dest, 1, k - 1)
        new_name == SubSeq(dest, k + 1, Len(dest))
        r2 == resolve_path(s, dest_copy)
        new_parent == IF k # 0 THEN r2.r ELSE parent
        ub2 == r.ub \/ (k # 0 /\ r2.ub)
    IN IF r.hang THEN Fault(s, "hang", r.ub)
       ELSE IF entry = NULL THEN Done(s, "NotFound", <<>>, r.ub)
       ELSE IF k # 0 /\ r2.hang THEN Fault(s, "hang", ub2)
       ELSE IF k # 0 /\ (new_parent = NULL \/ s.mem[new_parent].is_directory = 0)
            THEN Done(s, "InvalidDestination", <<>>, ub2)
       ELSE IF parent = NULL THEN Fault(s, "crash", ub2)
       ELSE LET u == unlink_entry(s, parent, entry)
                s1 == [u.s EXCEPT !.mem = [@ EXCEPT ![entry].name = new_name,
                                                    ![entry].parent = new_parent]]
            IN IF u.hang THEN Fault(s, "hang", ub2 \/ u.ub)
               ELSE Done(add_entry(s1, new_parent, entry), "ok", <<>>, ub2 \/ u.ub)

(* ------------------------ the command interpreter --------------------- *)
\* argument strings of the commands
Na == <<"a">>
Nb == <<"b">>
Nc == <<"c">>
Pab == <<"a", "/", "b">>
PRoot == <<Slash>>

ShortText == <<1>>
LongText == [i \in 1..(DEFAULT_FILE_SIZE + MaxGrow) |-> 2]
HalfText == [i \in 1..(DEFAULT_FILE_SIZE \div 2) |-> 3]

Command(c, p1, p2, text, perm) ==
    [cmd |-> c, p1 |-> p1, p2 |-> p2, text |-> text, perm |-> perm,
     res |-> "ok", out |-> <<>>, ub |-> FALSE]

\* Memory no pointer of the program leads to (from fs.root, fs.current and
\* the OpenFile list, through the pointer fields of the entries, freed or
\* not) cannot be read by any later command.  Such bytes are cleared, so
\* that two states that differ only in them are one state.
RECURSIVE Referenced(_, _)
Referenced(s, S) ==
    LET P == {s.mem[x].origin : x \in S} \cup {s.mem[x].child : x \in S}
             \cup {s.mem[x].next : x \in S} \cup {s.mem[x].parent : x \in S}
        T == S \cup (P \ {NULL})
    IN IF T = S THEN S ELSE Referenced(s, T)

Observable(s) ==
    LET R == Referenced(s, ({s.root, s.current}
                            \cup {s.open_files[i].file : i \in 1..Len(s.open_files)}) \ {NULL})
        B == {s.mem[x].content : x \in R}
    IN [s EXCEPT !.mem = [x \in Addr |-> IF x \in R THEN s.mem[x] ELSE Blank],
                 !.bufs = [b \in BufAddr |-> IF b \in B THEN s.bufs[b] ELSE ZeroBuf(0)]]

Install(s0) ==
    LET s == Observable(s0) IN
    /\ mem' = s.mem
    /\ live' = s.live
    /\ bufs' = s.bufs
    /\ bufLive' = s.bufLive
    /\ root' = s.root
    /\ current' = s.current
    /\ open_files' = s.open_files
    /\ next_inode' = s.next_inode
    /\ next_fd' = s.next_fd

\* the process is gone (or never returns to the prompt): nothing of its
\* memory is left to observe
Stop(how, c, res) ==
    /\ status' = how
    /\ last' = [c EXCEPT !.res = res, !.ub = TRUE]
    /\ mem' = [x \in Addr |-> Blank]
    /\ live' = {}
    /\ bufs' = [b \in BufAddr |-> ZeroBuf(0)]
    /\ bufLive' = {}
    /\ root' = NULL
    /\ current' = NULL
    /\ open_files' = <<>>
    /\ next_inode' = 0
    /\ next_fd' = 0

\* One turn of the loop of main: the prompt prints build_path(fs.current),
\* then the command c runs with result R.  Undefined behaviour may crash the
\* process at the point where it happens or let it go on.
Turn(c, R) ==
    LET P == build_path(Cur, current)
    IN /\ status = "running"
       /\ \/ /\ P.fault # "none" \/ P.ub
             /\ Stop("crashed", [c EXCEPT !.cmd = "prompt"], "crash")
          \/ /\ P.fault = "none"
             /\ R.fault = "hang"
             /\ Stop("hung", c, "hang")
          \/ /\ P.fault = "none"
             /\ R.fault = "crash" \/ (R.fault = "none" /\ R.ub)
             /\ Stop("crashed", c, "crash")
          \/ /\ P.fault = "none"
             /\ R.fault = "none"
             /\ Install(R.s)
             /\ status' = "running"
             /\ last' = [c EXCEPT !.res = R.res, !.out = R.out, !.ub = R.ub \/ P.ub]

CmdMkfs ==
    /\ next_inode <= MaxInode
    /\ \E a \in MkfsFree(Cur) :
          Turn(Command("mkfs", <<>>, <<>>, <<>>, 0), mkfs(Cur, a))

CmdTouch(Args) ==
    /\ next_inode <= MaxInode
    /\ \E n \in Args, a \in FreeAddrs(Cur, {}), b \in FreeBufs(Cur) :
          Turn(Command("touch", n, <<>>, <<>>, 0), fs_touch(Cur, n, a, b))

CmdMkdir(Args) ==
    /\ next_inode <= MaxInode
    /\ \E n \in Args, a \in FreeAddrs(Cur, {}) :
          Turn(Command("mkdir", n, <<>>, <<>>, 0), fs_mkdir(Cur, n, a))

CmdRmdir(Args) ==
    \E n \in Args : Turn(Command("rmdir", n, <<>>, <<>>, 0), fs_rmdir(Cur, n))

CmdCd(Args) ==
    \E n \in Args : Turn(Command("cd", n, <<>>, <<>>, 0), fs_cd(Cur, n))

CmdCat(Args) ==
    \E n \in Args : Turn(Command("cat", n, <<>>, <<>>, 0), fs_cat(Cur, n))

CmdWrite(Args, Texts) ==
    /\ next_fd <= MaxFd
    /\ \E n \in Args, x \in Texts, nb \in FreeBufs(Cur) \cup {NULL}, moved \in BOOLEAN :
          /\ moved => nb # NULL
          /\ nb # NULL => Len(x) > DEFAULT_FILE_SIZE
          /\ LET R == fs_write_cmd(Cur, n, x, nb, moved)
             IN /\ NULL \notin R.s.bufLive
                /\ Turn(Command("write", n, <<>>, x, 0), R)

CmdChmod(Perms, Args) ==
    \E q \in Perms, n \in Args :
        Turn(Command("chmod", n, <<>>, <<>>, q), fs_chmod(Cur, q, n))

CmdLn(Srcs, Dests) ==
    /\ \A x \in live : mem[x].link_count < MaxLinks
    /\ \E src \in Srcs, dest \in Dests, a \in FreeAddrs(Cur, {}) :
          Turn(Command("ln", src, dest, <<>>, 0), fs_ln(Cur, src, dest, a))

CmdLnS(Srcs, Dests) ==
    /\ next_inode <= MaxInode
    /\ \E src \in Srcs, dest \in Dests, a \in FreeAddrs(Cur, {}) :
          Turn(Command("ln -s", src, dest, <<>>, 0), fs_ln_s(Cur, src, dest, a))

CmdRm(Args) ==
    \E n \in Args : Turn(Command("rm", n, <<>>, <<>>, 0), fs_rm(Cur, n))

CmdMv(Srcs, Dests) ==
    \E src \in Srcs, dest \in Dests :
        Turn(Command("mv", src, dest, <<>>, 0), fs_mv(Cur, src, dest))

\* main calls mkfs() before it reads the first command
Init ==
    \E a \in Lowest(Addr) :
        /\ mem = [x \in Addr |-> IF x = a THEN NewEntry(1, 0, NULL, <<>>, <<Slash>>, 1, 0,
                                                       NULL, 1, 7, NULL)
                                 ELSE Blank]
        /\ live = {a}
        /\ bufs = [b \in BufAddr |-> ZeroBuf(0)]
        /\ bufLive = {}
        /\ root = a
        /\ current = a
        /\ open_files = <<>>
        /\ next_inode = 2
        /\ next_fd = FirstFd
        /\ status = "running"
        /\ last = Command("mkfs", <<>>, <<>>, <<>>, 0)

(* Hard links: one file name a, its hard link b. *)
NextHard ==
    \/ CmdMkfs
    \/ CmdTouch({Na})
    \/ CmdLn({Na}, {Nb})
    \/ CmdRm({Na, Nb})
    \/ CmdCat({Na, Nb})
    \/ CmdWrite({Na, Nb}, {ShortText, LongText})

SpecHard == Init /\ [][NextHard]_vars

(* Symbolic links to a file: file a, its symbolic link b, a renamed to c. *)
NextSym ==
    \/ CmdMkfs
    \/ CmdTouch({Na})
    \/ CmdLnS({Na}, {Nb})
    \/ CmdRm({Na})
    \/ CmdCat({Na, Nb})
    \/ CmdWrite({Na, Nb}, {ShortText})
    \/ CmdMv({Na}, {Nc})
    \/ CmdChmod({<<"4">>}, {Na})

SpecSym == Init /\ [][NextSym]_vars

(* Directories: directory a, its symbolic link b, files b and a/b. *)
NextDir ==
    \/ CmdMkdir({Na})
    \/ CmdLnS({Na}, {Nb})
    \/ CmdRmdir({Na})
    \/ CmdCd({Na, Nb, PRoot})
    \/ CmdTouch({Nb, Pab})
    \/ CmdWrite({Nb, Pab}, {ShortText})
    \/ CmdCat({Nb, Pab})
    \/ CmdChmod({<<"4">>}, {Nb})

SpecDir == Init /\ [][NextDir]_vars

(* ------------------------- what the claims speak of -------------------- *)
Running == status = "running"

\* the entries of the tree: what is reachable from the root through the
\* child lists
TreeEntries == subtree(Cur, root, MaxEntries + 1)

\* the names of files: entries of the tree that are neither directory nor
\* symbolic link
FileNames == {e \in TreeEntries : mem[e].is_directory = 0 /\ mem[e].is_symbol = 0}

\* the names that refer to the same file as e (hard links share the inode)
NamesOf(e) == {x \in FileNames : mem[x].inode = mem[e].inode}

(* C1: the content buffer of a file is released only when its last name is
   removed: as long as a name of the tree refers to a buffer, the buffer is
   allocated (so rm of one of two hard-link names leaves the buffer to the
   other name). *)
C1_BufferLivesWhileNamed ==
    Running => \A e \in FileNames :
                  mem[e].content # NULL => mem[e].content \in bufLive

(* C2: all hard-link names of one file show the same content and report the
   same size, in every reachable state (also after a write that grows the
   file). *)
C2_LinksShowSameContent ==
    Running => \A e \in FileNames : \A x \in NamesOf(e) :
                  /\ mem[x].size = mem[e].size
                  /\ PrintContent(Cur, x) = PrintContent(Cur, e)

(* C3: the link_count of every file name equals the number of names of the
   tree that refer to the same file. *)
C3_LinkCountIsNameCount ==
    Running => \A e \in FileNames : mem[e].link_count = Cardinality(NamesOf(e))

\* the symbolic link the path p names, NULL when p names none
LinkAt(p) ==
    LET r == resolve_path(Cur, p).r
    IN IF r # NULL /\ mem[r].is_symbol # 0 THEN r ELSE NULL

\* the entry the path captured by the link l resolves to now, NULL when it
\* does not resolve
CapturedTarget(l) == resolve_path(Cur, mem[l].nom_origin).r

\* the directory part of a path: what precedes its last slash
DirPart(p) == SubSeq(p, 1, LastSlash(p) - 1)

(* C4: cat of a symbolic link whose target was removed reports a dangling
   link, does not crash and reads no removed entry, marks the link Dead and
   changes nothing else. *)
C4_CatOfDanglingLink ==
    [][LET l == LinkAt(last'.p1)
       IN (/\ last'.cmd = "cat"
           /\ l # NULL
           /\ mem[l].is_directory = 0
           /\ mem[l].origin \notin live
           /\ CapturedTarget(l) = NULL)
          => (/\ status' = "running"
              /\ last'.res = "DanglingLink"
              /\ ~last'.ub
              /\ mem' = [mem EXCEPT ![l].is_symbol = 2]
              /\ UNCHANGED <<live, bufs, bufLive, root, current, open_files,
                             next_inode, next_fd>>)]_vars

(* C5: cat of a Dead link whose captured path resolves again to a file
   succeeds, marks the link Live and prints the content of the entry that
   is at the captured path now (stated for the runs in which the command
   returns to the prompt). *)
C5_CatAfterRecreate ==
    [][LET l == LinkAt(last'.p1)
           t == CapturedTarget(l)
       IN (/\ last'.cmd = "cat"
           /\ l # NULL
           /\ mem[l].is_symbol = 2
           /\ t \in FileNames
           /\ status' = "running")
          => (/\ last'.res = "ok"
              /\ mem'[l].is_symbol = 1
              /\ last'.out = PrintContent(Cur, t))]_vars

(* C6: a dereference of a symbolic link re-resolves the captured path: cat
   or write through a link to a file whose entry still exists reports a
   dangling link, and marks the link Dead, exactly when the captured path
   does not resolve (as after ln -s a b; mv a c). *)
C6_DerefFollowsCapturedPath ==
    [][LET l == LinkAt(last'.p1)
       IN (/\ last'.cmd \in {"cat", "write"}
           /\ l # NULL
           /\ mem[l].is_directory = 0
           /\ mem[l].origin \in TreeEntries)
          => ((last'.res = "DanglingLink" /\ mem'[l].is_symbol = 2)
              <=> CapturedTarget(l) = NULL)]_vars

(* C7: cd on a Live symbolic link to a directory that still exists succeeds
   and makes that directory the current directory. *)
C7_CdFollowsLiveLink ==
    [][LET l == LinkAt(last'.p1)
       IN (/\ last'.cmd = "cd"
           /\ l # NULL
           /\ mem[l].is_symbol = 1
           /\ mem[l].origin \in TreeEntries
           /\ mem[mem[l].origin].is_directory = 1
           /\ mem[mem[l].origin].is_symbol = 0
           /\ CapturedTarget(l) = mem[l].origin)
          => (/\ status' = "running"
              /\ last'.res = "ok"
              /\ current' = mem[l].origin)]_vars

(* C8: a failing cd leaves the current directory as it was; cd on a link
   whose target directory was removed reports a dangling link, marks the
   link Dead, leaves current unchanged and reads no removed entry. *)
C8_FailingCdKeepsCurrent ==
    [][LET l == LinkAt(last'.p1)
       IN /\ (last'.cmd = "cd" /\ last'.res # "ok")
             => (status' = "running" /\ current' = current)
          /\ (/\ last'.cmd = "cd"
              /\ l # NULL
              /\ mem[l].is_directory = 1
              /\ mem[l].origin \notin live)
             => (/\ last'.res = "DanglingLink"
                 /\ mem'[l].is_symbol = 2
                 /\ ~last'.ub)]_vars

(* C9: touch interprets a multi-segment path as cat and write do: after a
   successful touch of a path whose directory part names a directory, the
   path resolves to a file. *)
C9_TouchedPathResolves ==
    (/\ Running
     /\ last.cmd = "touch"
     /\ last.res = "ok"
     /\ LET d == resolve_path(Cur, DirPart(last.p1)).r
        IN d # NULL /\ mem[d].is_directory = 1 /\ mem[d].is_symbol = 0)
    => resolve_path(Cur, last.p1).r \in FileNames

(* C10: a write command on a path that names a file without write bit (or a
   symbolic link to one) is refused and leaves the content and the size of
   that file unchanged. *)
C10_ReadOnlyWriteRefused ==
    [][LET r == resolve_path(Cur, last'.p1).r
           t == IF r # NULL /\ mem[r].is_symbol # 0 THEN mem[r].origin ELSE r
       IN (/\ last'.cmd = "write"
           /\ t \in FileNames
           /\ (mem[t].perms \div 2) % 2 = 0)
          => (/\ status' = "running"
              /\ last'.res # "ok"
              /\ mem'[t].size = mem[t].size
              /\ mem'[t].content = mem[t].content
              /\ bufs'[mem[t].content] = bufs[mem[t].content])]_vars

(* C11: no directory of the tree lists two children with the same name. *)
C11_SiblingNamesUnique ==
    Running => \A d \in TreeEntries :
                  mem[d].is_directory # 0 =>
                     LET L == ChildList(Cur, d)
                     IN \A i, j \in 1..Len(L) :
                           i # j => mem[L[i]].name # mem[L[j]].name

(* Moves: directory a, file b, a moved below itself, names given by mv. *)
PSa == <<Slash, "a">>
PSab == <<Slash, "a", Slash, "b">>

NextMove ==
    \/ CmdMkfs
    \/ CmdMkdir({Na})
    \/ CmdTouch({Nb})
    \/ CmdCd({Na, PRoot})
    \/ CmdMv({PSa, Na, Nb}, {PSab, Na, Nb})
    \/ CmdRm({Na, Nb})
    \/ CmdRmdir({Na})

SpecMove == Init /\ [][NextMove]_vars

\* the entry without parent that the parent fields lead to from e, NULL when
\* they lead to none
RECURSIVE TopOf(_, _)
TopOf(e, fuel) ==
    IF e = NULL \/ fuel = 0 THEN NULL
    ELSE IF mem[e].parent = NULL THEN e
    ELSE TopOf(mem[e].parent, fuel - 1)

(* C12: parent and children form a tree rooted at root: from every entry of
   the tree and from the current directory the parent fields lead to root,
   and every entry of the tree other than root is listed exactly once among
   the children of the directory its parent field names. *)
C12_ParentsFormTree ==
    Running =>
       /\ \A e \in TreeEntries \cup {current} : TopOf(e, MaxEntries + 1) = root
       /\ \A e \in TreeEntries \ {root} :
             LET L == ChildList(Cur, mem[e].parent)
             IN Cardinality({i \in 1..Len(L) : L[i] = e}) = 1

(* Creation: names a and b made by mkdir, touch, ln and ln -s in the root
   and below directory a; c never exists. *)
NextCreate ==
    \/ CmdMkdir({Na, Nb})
    \/ CmdTouch({Na, Nb})
    \/ CmdLn({Na, Nc}, {Nb})
    \/ CmdLnS({Na, Nc}, {Nb})
    \/ CmdCd({Na, PRoot})
    \/ CmdRm({Nb})

SpecCreate == Init /\ [][NextCreate]_vars

\* the commands that create an entry in the current directory, and the name
\* each of them gives the entry
Creations == {"mkdir", "touch", "ln", "ln -s"}

DestOf(c) == IF c.cmd \in {"ln", "ln -s"} THEN c.p2 ELSE c.p1

\* the current directory is a directory of the tree and the tree is made of
\* allocated entries
CurrentInTree == current \in TreeEntries /\ TreeEntries \subseteq live

NothingChanged ==
    UNCHANGED <<mem, live, bufs, bufLive, root, current, open_files, next_inode, next_fd>>

(* C13 as stated: a creation command whose destination name exists in the
   current directory fails with the already-exists error and changes nothing;
   after a successful creation the name looked up in the current directory
   is the new entry. *)
C13_ExistingNameRefused ==
    [][(last'.cmd \in Creations /\ CurrentInTree)
       => /\ find_entry(Cur, current, DestOf(last')).r # NULL
             => (/\ status' = "running"
                 /\ last'.res = "AlreadyExists"
                 /\ NothingChanged)
          /\ (status' = "running" /\ last'.res = "ok")
             => find_entry(Cur', current', DestOf(last')).r \in live' \ live]_vars

\* the source of ln must resolve to an entry that is no directory, the
\* source of ln -s to an entry
SourceMissing(c) ==
    LET r == resolve_path(Cur, c.p1).r
    IN \/ c.cmd = "ln" /\ (r = NULL \/ mem[r].is_directory # 0)
       \/ c.cmd = "ln -s" /\ r = NULL

(* C13 amended: a creation command whose destination name exists in the
   current directory fails and changes nothing; the error is already-exists,
   except for ln and ln -s with a source that does not resolve, which report
   the missing source; after a successful creation the name looked up in
   the current directory is the new entry. *)
C13_ExistingNameRefusedAmended ==
    [][(last'.cmd \in Creations /\ CurrentInTree)
       => /\ find_entry(Cur, current, DestOf(last')).r # NULL
             => (/\ status' = "running"
                 /\ last'.res = (IF SourceMissing(last') THEN "NotFound" ELSE "AlreadyExists")
                 /\ NothingChanged)
          /\ (status' = "running" /\ last'.res = "ok")
             => find_entry(Cur', current', DestOf(last')).r \in live' \ live]_vars

\* a hard link was refused because its destination name exists
C13_Witness ==
    /\ Running
    /\ last.cmd = "ln"
    /\ last.res = "AlreadyExists"
    /\ find_entry(Cur, current, last.p2).r # NULL

\* an entry with its two list pointers left out
Detached(e) == [e EXCEPT !.child = NULL, !.next = NULL]

(* C14: rmdir and rm of a directory with a child fail with the not-empty
   error and change nothing; of the root they fail and change nothing; of an
   empty directory other than the root they succeed, the path then resolves
   to nothing, and every other entry of the tree is as before. *)
C14_RemovalOfDirectories ==
    [][LET r == resolve_path(Cur, last'.p1).r
       IN (/\ last'.cmd \in {"rmdir", "rm"}
           /\ CurrentInTree
           /\ r \in TreeEntries
           /\ mem[r].is_directory # 0
           /\ mem[r].is_symbol = 0)
          => /\ status' = "running"
             /\ (mem[r].child # NULL /\ r # root)
                => (last'.res = "NotEmpty" /\ NothingChanged)
             /\ r = root
                => (last'.res \in {"NotEmpty", "IsRoot"} /\ NothingChanged)
             /\ (mem[r].child = NULL /\ r # root)
                => (/\ last'.res = "ok"
                    /\ resolve_path(Cur', last'.p1).r = NULL
                    /\ subtree(Cur', root', MaxEntries + 1) = TreeEntries \ {r}
                    /\ \A e \in TreeEntries \ {r} :
                          Detached(mem'[e]) = Detached(mem[e]))]_vars

(* C15: mkfs leaves exactly one entry, the root directory named / without
   parent, without children and with permissions 7; it is the current
   directory, the open-file table is empty, and the command frees every
   entry and buffer of the previous tree once, without a fault. *)
C15_MkfsLeavesEmptyRoot ==
    [][last'.cmd = "mkfs"
       => /\ status' = "running"
          /\ ~last'.ub
          /\ subtree(Cur', root', MaxEntries + 1) = {root'}
          /\ root' \in live'
          /\ mem'[root'].name = <<Slash>>
          /\ mem'[root'].is_directory = 1
          /\ mem'[root'].parent = NULL
          /\ mem'[root'].child = NULL
          /\ mem'[root'].perms = 7
          /\ current' = root'
          /\ open_files' = <<>>]_vars

(* C16: no command is fatal: a command issued at the prompt completes
   without dereferencing a missing or removed entry and the interpreter
   returns to the prompt. *)
C16_NoCommandIsFatal ==
    [][status = "running" => (status' = "running" /\ ~last'.ub)]_vars

(* C17: path round trip: for every entry of the tree, the path build_path
   gives it resolves, to an entry to which build_path gives the same path. *)
C17_PathRoundTrip ==
    Running => \A e \in TreeEntries :
                  LET p == build_path(Cur, e)
                      r == resolve_path(Cur, p.path).r
                  IN /\ p.fault = "none"
                     /\ r # NULL
                     /\ build_path(Cur, r).path = p.path

(* -------------------------------- tree --------------------------------- *)
\* one printed line of fs_tree / fs_tree_i: the indentation, the inode
\* (0 when it is not shown), the name and the kind tag, which is the colour
\* the name is printed in: "dir" blue (34), "file" green (32), "link" cyan
\* (36), "dead" red (31), "plain" no colour (a path argument that is no
\* directory).  fs_tree prints every symbolic link in cyan;
\* fs_tree_i prints is_symbol == 1 in cyan and is_symbol == 2 in red.
TreeLine(s, e, ind, show_inodes, kind) ==
    [ind |-> ind, inode |-> IF show_inodes THEN s.mem[e].inode ELSE 0,
     name |-> s.mem[e].name, kind |-> kind]

\* fs_tree(arg, indentation) and fs_tree_i(arg, indentation): has_arg is
\* FALSE for arg == NULL.  The recursive call passes the name of the child
\* directory, which resolve_path looks up again from fs.current (from
\* fs.root when the name starts with a slash).  fuel bounds the depth of the
\* recursion: deeper than the number of entries, a directory is being
\* listed inside its own listing and the recursion never ends (the stack
\* overflows).  tree_children is the while loop over the children L of
\* cible, from the i-th on.
RECURSIVE tree_walk(_, _, _, _, _, _)
RECURSIVE tree_children(_, _, _, _, _, _, _)
tree_children(s, cible, L, i, ind, show_inodes, fuel) ==
    IF i > Len(L) THEN [s |-> s, out |-> <<>>, ub |-> FALSE, fault |-> "none"]
    ELSE LET child == L[i]
             c == s.mem[child]
             here == IF (IF show_inodes THEN c.is_symbol \in {1, 2} ELSE c.is_symbol # 0)
                     THEN [s |-> s, ub |-> FALSE, fault |-> "none",
                           out |-> <<TreeLine(s, child, ind + 1, show_inodes,
                                              IF show_inodes /\ c.is_symbol = 2
                                              THEN "dead" ELSE "link")>>]
                     ELSE IF c.is_directory # 0
                     THEN tree_walk([s EXCEPT !.current = cible], c.name, TRUE,
                                    ind + 1, show_inodes, fuel - 1)
                     ELSE [s |-> s, ub |-> FALSE, fault |-> "none",
                           out |-> <<TreeLine(s, child, ind + 1, show_inodes, "file")>>]
         IN IF here.fault # "none" THEN here
            ELSE LET rest == tree_children(here.s, cible, L, i + 1, ind, show_inodes, fuel)
                 IN [s |-> rest.s, out |-> here.out \o rest.out,
                     ub |-> here.ub \/ rest.ub \/ child \notin s.live,
                     fault |-> rest.fault]

tree_walk(s, arg, has_arg, ind, show_inodes, fuel) ==
    LET r == IF has_arg THEN resolve_path(s, arg)
             ELSE [r |-> s.current, parent |-> NULL, ub |-> FALSE, hang |-> FALSE]
        cible == r.r
    IN IF fuel = 0 THEN [s |-> s, out |-> <<>>, ub |-> FALSE, fault |-> "crash"]
       ELSE IF r.hang THEN [s |-> s, out |-> <<>>, ub |-> r.ub, fault |-> "hang"]
       ELSE IF cible = NULL
       THEN IF has_arg THEN [s |-> s, out |-> <<>>, ub |-> r.ub, fault |-> "none"]
            ELSE [s |-> s, out |-> <<>>, ub |-> FALSE, fault |-> "crash"]
       ELSE IF has_arg /\ s.mem[cible].is_directory = 0
       THEN [s |-> s, out |-> <<TreeLine(s, cible, 0, show_inodes, "plain")>>,
             ub |-> r.ub \/ cible \notin s.live, fault |-> "none"]
       ELSE LET L == ChildList(s, cible)
                w == tree_children(s, cible, L, 1, ind, show_inodes, fuel)
            IN IF Len(L) > MaxEntries
               THEN [s |-> s, out |-> <<>>, ub |-> r.ub, fault |-> "hang"]
               ELSE [s |-> [w.s EXCEPT !.current = IF w.fault = "none" THEN cible ELSE @],
                     out |-> <<TreeLine(s, cible, ind, show_inodes, "dir")>> \o w.out,
                     ub |-> r.ub \/ w.ub \/ cible \notin s.live,
                     fault |-> w.fault]

\* the tree command of main: the start is resolved first, then fs_tree or
\* fs_tree_i resolves it again
fs_tree(s, arg, has_arg) ==
    LET start == IF has_arg THEN resolve_path(s, arg)
                 ELSE [r |-> s.current, parent |-> NULL, ub |-> FALSE, hang |-> FALSE]
        w == tree_walk(s, arg, has_arg, 0, FALSE, MaxEntries + 1)
    IN IF start.hang THEN Fault(s, "hang", start.ub)
       ELSE IF start.r = NULL THEN Done(s, "NotFound", <<>>, start.ub)
       ELSE IF w.fault # "none" THEN Fault(s, w.fault, w.ub)
       ELSE Done(w.s, "ok", w.out, w.ub)

fs_tree_i(s, arg, has_arg) ==
    LET start == IF has_arg THEN resolve_path(s, arg)
                 ELSE [r |-> s.current, parent |-> NULL, ub |-> FALSE, hang |-> FALSE]
        w == tree_walk(s, arg, has_arg, 0, TRUE, MaxEntries + 1)
    IN IF start.hang THEN Fault(s, "hang", start.ub)
       ELSE IF start.r = NULL THEN Done(s, "NotFound", <<>>, start.ub)
       ELSE IF w.fault # "none" THEN Fault(s, w.fault, w.ub)
       ELSE Done(w.s, "ok", w.out, w.ub)

\* tree, tree <path>, tree -i, tree -i <path>
CmdTree(Args) ==
    \E n \in Args \cup {<<>>}, show_inodes \in BOOLEAN :
        Turn(Command(IF show_inodes THEN "tree -i" ELSE "tree", n, <<>>, <<>>, 0),
             IF show_inodes THEN fs_tree_i(Cur, n, n # <<>>) ELSE fs_tree(Cur, n, n # <<>>))

(* Listings: directories a and /, file b, a symbolic link b to a. *)
NextTree ==
    \/ CmdMkdir({Na, PRoot})
    \/ CmdTouch({Nb})
    \/ CmdLnS({Na}, {Nb})
    \/ CmdCd({Na})
    \/ CmdTree({Na})

SpecTree == Init /\ [][NextTree]_vars

\* the lines of a listing that show a directory
DirLines(out) == {i \in 1..Len(out) : out[i].kind = "dir"}

(* C18: tree terminates: it returns to the prompt, and its listing shows
   each directory of the listed subtree on exactly one line. *)
C18_TreeTerminates ==
    [][(last'.cmd \in {"tree", "tree -i"} /\ CurrentInTree)
       => /\ status' = "running"
          /\ last'.res = "ok"
             => LET start == IF last'.p1 = <<>> THEN current
                             ELSE resolve_path(Cur, last'.p1).r
                    D == {e \in subtree(Cur, start, MaxEntries + 1) :
                             mem[e].is_directory # 0 /\ mem[e].is_symbol = 0}
                IN Cardinality(DirLines(last'.out)) = Cardinality(D)]_vars

(* ----------------------- the descriptor interface ---------------------- *)
\* a call of fs_open, fs_write, fs_lseek or fs_close with its arguments
ApiCall(c, name, fd, flag, offset, data) ==
    [cmd |-> c, p1 |-> name, p2 |-> <<>>, text |-> data, perm |-> 0,
     res |-> "ok", out |-> <<>>, ub |-> FALSE, fd |-> fd, flag |-> flag, offset |-> offset]

ApiOpen(Names, Flags) ==
    /\ next_fd <= MaxFd
    /\ \E n \in Names, flag \in Flags :
          LET op == fs_open(Cur, n, flag)
          IN Turn(ApiCall("fs_open", n, op.fd, flag, 0, <<>>),
                  [s |-> op.s, res |-> op.res, out |-> <<>>, ub |-> op.ub,
                   fault |-> IF op.hang THEN "hang" ELSE "none"])

ApiWrite(Fds, Texts) ==
    \E fd \in Fds, x \in Texts, nb \in FreeBufs(Cur) \cup {NULL}, moved \in BOOLEAN :
        /\ moved => nb # NULL
        /\ nb # NULL => NeedsBuf(Cur, fd, x)
        /\ LET i == FindOpen(Cur, fd)
               w == fs_write(Cur, fd, x, nb, moved)
           IN /\ i # 0 => open_files[i].offset + Len(x) <= MaxSize
              /\ NULL \notin w.s.bufLive
              /\ Turn(ApiCall("fs_write", <<>>, fd, 0, 0, x),
                      [s |-> w.s, res |-> w.res, out |-> <<w.ret>>, ub |-> w.ub, fault |-> w.fault])

ApiLseek(Fds, Offsets) ==
    \E fd \in Fds, offset \in Offsets :
        LET k == fs_lseek(Cur, fd, offset)
        IN Turn(ApiCall("fs_lseek", <<>>, fd, 0, offset, <<>>),
                [s |-> k.s, res |-> k.res, out |-> <<>>, ub |-> k.ub, fault |-> "none"])

ApiClose(Fds) ==
    \E fd \in Fds :
        LET c == fs_close(Cur, fd)
        IN Turn(ApiCall("fs_close", <<>>, fd, 0, 0, <<>>),
                [s |-> c.s, res |-> c.res, out |-> <<>>, ub |-> FALSE, fault |-> "none"])

\* the descriptors a caller may pass: those handed out and one never handed out
Fds == FirstFd..(MaxFd + 1)

\* offsets below, at and beyond the sizes a file can have
Offsets == {-1, 0, MaxSize, MaxSize + 1}

(* Descriptors: file a, opened for writing, written, positioned, closed,
   its permissions changed. *)
NextFd ==
    \/ CmdTouch({Na})
    \/ CmdChmod({<<"4">>, <<"6">>}, {Na})
    \/ ApiOpen({Na}, {2})
    \/ ApiWrite(Fds, {HalfText})
    \/ ApiLseek(Fds, Offsets)
    \/ ApiClose(Fds)

SpecFd == Init /\ [][NextFd]_vars

(* C19: the offset of every record of the open-file table lies between 0 and
   the size of the file the record refers to. *)
C19_OffsetWithinSize ==
    Running => \A i \in 1..Len(open_files) :
                  /\ 0 <= open_files[i].offset
                  /\ open_files[i].offset <= mem[open_files[i].file].size

\* a write through a descriptor has grown the file and left the offset at
\* the new size
C19_Witness ==
    /\ Running
    /\ last.cmd = "fs_write"
    /\ last.res = "ok"
    /\ \E i \in 1..Len(open_files) :
          /\ open_files[i].fd = last.fd
          /\ open_files[i].offset = mem[open_files[i].file].size
          /\ open_files[i].offset > DEFAULT_FILE_SIZE

(* C20: fs_lseek fails and changes nothing when the descriptor is not in
   the table, when the offset is negative and when it is greater than the
   size of the file; for an offset from 0 to the size, the size included, it
   succeeds, sets the offset of the descriptor and changes nothing else. *)
C20_LseekBounds ==
    [][last'.cmd = "fs_lseek"
       => LET i == FindOpen(Cur, last'.fd)
              off == last'.offset
          IN /\ status' = "running"
             /\ IF i = 0 \/ off < 0 \/ off > mem[open_files[i].file].size
                THEN /\ last'.res = (IF i = 0 THEN "InvalidDescriptor" ELSE "InvalidOffset")
                     /\ NothingChanged
                ELSE /\ last'.res = "ok"
                     /\ open_files' = [open_files EXCEPT ![i].offset = off]
                     /\ UNCHANGED <<mem, live, bufs, bufLive, root, current,
                                    next_inode, next_fd>>]_vars

\* fs_lseek has moved a descriptor to the very end of a file that was grown
C20_Witness ==
    /\ Running
    /\ last.cmd = "fs_lseek"
    /\ last.res = "ok"
    /\ last.offset > DEFAULT_FILE_SIZE
    /\ \E i \in 1..Len(open_files) :
          /\ open_files[i].fd = last.fd
          /\ open_files[i].offset = last.offset
          /\ last.offset = mem[open_files[i].file].size

(* Writes: files a and b, descriptors opened on a for writing, written
   through and moved back to the start. *)
NextWrite ==
    \/ CmdTouch({Na, Nb})
    \/ ApiOpen({Na}, {2})
    \/ ApiWrite(Fds, {HalfText})
    \/ ApiLseek(Fds, {0})

SpecWrite == Init /\ [][NextWrite]_vars

(* C21: a successful fs_write(fd, data) of n bytes at offset o on a file of
   size s leaves the file with size max(s, o+n), with the bytes o..o+n-1
   equal to data and every byte below s outside that range as it was; the
   offset of the descriptor becomes o+n and n is returned; no other entry,
   no content of another file and no other descriptor is changed. *)
C21_WriteEffect ==
    [][last'.cmd = "fs_write" /\ last'.res = "ok"
       => LET i == FindOpen(Cur, last'.fd)
              file == open_files[i].file
              o == open_files[i].offset
              n == Len(last'.text)
              s == mem[file].size
              old == bufs[mem[file].content]
              new == bufs'[mem'[file].content]
          IN /\ status' = "running"
             /\ i # 0
             /\ mem'[file].size = (IF s > o + n THEN s ELSE o + n)
             /\ \A k \in 1..n : ByteAt(new, o + k) = last'.text[k]
             /\ \A k \in 1..s : (k <= o \/ k > o + n) => ByteAt(new, k) = ByteAt(old, k)
             /\ open_files' = [open_files EXCEPT ![i].offset = o + n]
             /\ last'.out = <<n>>
             /\ \A e \in Addr \ {file} :
                   /\ mem'[e] = mem[e]
                   /\ (e \in live /\ mem[e].content # NULL /\ mem[e].content # mem[file].content)
                         => bufs'[mem'[e].content] = bufs[mem[e].content]
             /\ [mem'[file] EXCEPT !.size = s, !.content = mem[file].content] = mem[file]
             /\ UNCHANGED <<live, root, current, next_inode, next_fd>>]_vars

\* a write in the middle of a grown file, below bytes written before and
\* above others, while another file and another descriptor exist
C21_Witness ==
    /\ Running
    /\ last.cmd = "fs_write"
    /\ last.res = "ok"
    /\ Len(open_files) > 1
    /\ \E f \in FileNames : mem[f].name = Nb
    /\ \E i \in 1..Len(open_files) :
          /\ open_files[i].fd = last.fd
          /\ open_files[i].offset = DEFAULT_FILE_SIZE
          /\ mem[open_files[i].file].size > DEFAULT_FILE_SIZE
          /\ ByteAt(bufs[mem[open_files[i].file].content], 1) # 0
          /\ ByteAt(bufs[mem[open_files[i].file].content], DEFAULT_FILE_SIZE + 1) # 0

(* Modes: file a opened for reading and for writing, its permissions
   changed between the open and the writes. *)
NextMode ==
    \/ CmdTouch({Na})
    \/ CmdChmod({<<"4">>, <<"6">>}, {Na})
    \/ ApiOpen({Na}, {1, 2})
    \/ ApiWrite(Fds, {HalfText})

SpecMode == Init /\ [][NextMode]_vars

(* C22: fs_write fails when the descriptor is not in the table, when it was
   opened read-only, and when the write bit of the file is clear at the time
   of the write (also for a descriptor that was opened for writing while the
   bit was set); each of these failures returns -1 and leaves the content
   and size of the file and the offset of the descriptor, with all the rest
   of the state, unchanged. *)
C22_WriteRefused ==
    [][last'.cmd = "fs_write"
       => LET i == FindOpen(Cur, last'.fd)
          IN (i = 0 \/ open_files[i].flags = 1
                    \/ (mem[open_files[i].file].perms \div 2) % 2 = 0)
             => /\ status' = "running"
                /\ last'.res \in {"InvalidDescriptor", "NotOpenForWriting", "PermissionDenied"}
                /\ last'.out = <<-1>>
                /\ NothingChanged]_vars

\* a write was refused through a descriptor opened for writing whose file
\* has lost its write bit since
C22_Witness ==
    /\ Running
    /\ last.cmd = "fs_write"
    /\ last.res = "PermissionDenied"
    /\ \E i \in 1..Len(open_files) :
          /\ open_files[i].fd = last.fd
          /\ open_files[i].flags = 2
          /\ mem[open_files[i].file].perms = 4

(* Opening: file a, directory b and the absent name c opened for reading,
   for writing and for both, the permissions of a changed, descriptors
   closed, the file system made anew. *)
NextOpen ==
    \/ CmdMkfs
    \/ CmdTouch({Na})
    \/ CmdMkdir({Nb})
    \/ CmdChmod({<<"2">>, <<"4">>, <<"6">>}, {Na})
    \/ ApiOpen({Na, Nb, Nc}, {1, 2, 3})
    \/ ApiClose(Fds)

SpecOpen == Init /\ [][NextOpen]_vars

(* C23: fs_open fails, returns -1 and changes nothing (the open-file table
   and the descriptor counter included) when the name is not in the current
   directory, when it names a directory, and when the mode needs a read or
   write bit the entry lacks.  Otherwise it puts one record in the table,
   for that entry, with offset 0 and a descriptor that is at least 3, is
   not below the counter (which no step but mkfs lowers, and which lies
   above every descriptor of the table) and so differs from every
   descriptor of the table.  fs_close(fd) removes the record of fd and no
   other, and fails, changing nothing, when no record has fd. *)
C23_OpenAndClose ==
    /\ [](Running => \A i \in 1..Len(open_files) :
                        FirstFd <= open_files[i].fd /\ open_files[i].fd < next_fd)
    /\ [][(status' = "running" /\ last'.cmd # "mkfs") => next_fd' >= next_fd]_vars
    /\ [][last'.cmd = "fs_open"
          => LET entry == find_entry(Cur, current, last'.p1).r
                 flag == last'.flag
                 fd == last'.fd
             IN /\ status' = "running"
                /\ IF \/ entry = NULL
                      \/ mem[entry].is_directory # 0
                      \/ (flag \in {1, 3} /\ (mem[entry].perms \div 4) % 2 = 0)
                      \/ (flag \in {2, 3} /\ (mem[entry].perms \div 2) % 2 = 0)
                   THEN /\ last'.res # "ok"
                        /\ fd = -1
                        /\ NothingChanged
                   ELSE /\ last'.res = "ok"
                        /\ open_files' = <<[fd |-> fd, file |-> entry,
                                            flags |-> flag, offset |-> 0]>> \o open_files
                        /\ fd >= FirstFd
                        /\ fd >= next_fd
                        /\ next_fd' > fd
                        /\ \A i \in 1..Len(open_files) : open_files[i].fd < fd
                        /\ UNCHANGED <<mem, live, bufs, bufLive, root, current, next_inode>>]_vars
    /\ [][last'.cmd = "fs_close"
          => LET I == {i \in 1..Len(open_files) : open_files[i].fd = last'.fd}
             IN /\ status' = "running"
                /\ IF I = {}
                   THEN last'.res # "ok" /\ NothingChanged
                   ELSE /\ last'.res = "ok"
                        /\ \E i \in I :
                              /\ I = {i}
                              /\ open_files' = SubSeq(open_files, 1, i - 1)
                                               \o SubSeq(open_files, i + 1, Len(open_files))
                        /\ UNCHANGED <<mem, live, bufs, bufLive, root, current,
                                       next_inode, next_fd>>]_vars

\* fs_open has handed out a descriptor above one that was closed before,
\* while another record is still in the table
C23_Witness ==
    /\ Running
    /\ last.cmd = "fs_open"
    /\ last.res = "ok"
    /\ last.fd > FirstFd
    /\ Len(open_files) = 1
    /\ open_files[1].fd = last.fd
    /\ open_files[1].offset = 0

(* Permissions: file a, directory b and the symbolic link c to a, which rm
   of a and cat of c take from Live to Dead; chmod with arguments that
   write numbers inside and outside 0..7. *)
BigPerm == <<"4", "2", "9", "4", "9", "6", "7", "2", "9", "8">>

PermArgs == {<<"0">>, <<"5">>, <<"8">>, <<"-", "1">>, BigPerm}

NextChmod ==
    \/ CmdTouch({Na})
    \/ CmdMkdir({Nb})
    \/ CmdLnS({Na}, {Nc})
    \/ CmdRm({Na})
    \/ CmdCat({Nc})
    \/ CmdChmod(PermArgs, {Na, Nb, Nc})

SpecChmod == Init /\ [][NextChmod]_vars

\* the arguments that write a number from 0 to 7 (no argument of PermArgs
\* has a sign + or a leading zero), and the number
IsPermission(p) == Len(p) = 1 /\ p[1] \in Range(SubSeq(Digits, 1, 8))

(* C24: chmod p path is rejected and leaves the permission bits of every
   entry as they were when the path does not resolve, when it resolves to a
   symbolic link (Live or Dead) and when p is outside 0..7; otherwise it
   sets the permission bits of the resolved file or directory to p and
   changes nothing else. *)
C24_ChmodContract ==
    [][last'.cmd = "chmod"
       => LET entry == resolve_path(Cur, last'.p1).r
              p == last'.perm
          IN /\ status' = "running"
             /\ IF entry = NULL \/ mem[entry].is_symbol # 0 \/ ~IsPermission(p)
                THEN /\ last'.res # "ok"
                     /\ \A e \in Addr : mem'[e].perms = mem[e].perms
                ELSE /\ last'.res = "ok"
                     /\ mem' = [mem EXCEPT ![entry].perms = DigitOf(p[1])]
                     /\ UNCHANGED <<live, bufs, bufLive, root, current, open_files,
                                    next_inode, next_fd>>]_vars

(* Links: directory a, file c made in the root or in a, the symbolic link
   b to either, removed and moved (renamed in place, or into a). *)
NextLink ==
    \/ CmdMkdir({Na})
    \/ CmdCd({Na, PRoot})
    \/ CmdTouch({Nc})
    \/ CmdLnS({Na, Nc}, {Nb})
    \/ CmdRm({Nb})
    \/ CmdMv({Nb}, {Nc, Pab})

SpecLink == Init /\ [][NextLink]_vars

\* what C25 says an entry e other than the link l keeps: its name, parent,
\* content, size, permission bits and link count, and as a directory the
\* entries below it, l apart
Kept(s, e, l) ==
    [name |-> s.mem[e].name, parent |-> s.mem[e].parent,
     content |-> IF s.mem[e].content = NULL THEN <<>> ELSE s.bufs[s.mem[e].content].pre,
     size |-> s.mem[e].size, perms |-> s.mem[e].perms, link_count |-> s.mem[e].link_count,
     live |-> e \in s.live,
     below |-> subtree(s, e, MaxEntries + 1) \ {e, l}]

(* C25: rm and mv of a path that resolves to a symbolic link act on the
   link entry: rm takes only the link out of the tree, mv gives only the
   link its new name and directory; every other entry of the tree, the
   target of the link among them, keeps its name, parent, content, size,
   permission bits and link count, and as a directory the entries below
   it. *)
C25_LinkItself ==
    [][LET r == resolve_path(Cur, last'.p1)
           link == r.r
       IN (/\ last'.cmd \in {"rm", "mv"}
           /\ CurrentInTree
           /\ link # NULL
           /\ mem[link].is_symbol # 0)
          => /\ status' = "running"
             /\ ~last'.ub
             /\ \A e \in TreeEntries \ {link} : Kept(Cur, e, link) = Kept(Cur', e, link)
             /\ last'.cmd = "rm"
                   => /\ last'.res = "ok"
                      /\ TreeEntries' = TreeEntries \ {link}
             /\ (last'.cmd = "mv" /\ last'.res = "ok")
                   => /\ mem'[link].name = SubSeq(last'.p2, LastSlash(last'.p2) + 1, Len(last'.p2))
                      /\ mem'[link].origin = mem[link].origin
                      /\ TreeEntries' \ {link} = TreeEntries \ {link}
             /\ (last'.cmd = "mv" /\ last'.res # "ok") => NothingChanged]_vars

\* mv has renamed a symbolic link whose target is a directory with an entry
\* in it
C25_Witness ==
    /\ Running
    /\ last.cmd = "mv"
    /\ last.res = "ok"
    /\ \E l \in TreeEntries :
          /\ mem[l].is_symbol # 0
          /\ mem[l].name = Nc
          /\ mem[l].origin \in TreeEntries
          /\ mem[mem[l].origin].is_symbol = 0
          /\ mem[mem[l].origin].is_directory # 0
          /\ mem[mem[l].origin].child # NULL

(* Inodes: file a, its hard link b, the symbolic link and the directory c,
   names removed, the file system made anew. *)
NextInode ==
    \/ CmdMkfs
    \/ CmdTouch({Na})
    \/ CmdMkdir({Nc})
    \/ CmdLn({Na, Nb}, {Nb, Nc})
    \/ CmdLnS({Na}, {Nc})
    \/ CmdRm({Na, Nc})

SpecInode == Init /\ [][NextInode]_vars

(* C26: two entries of the tree carry the same inode number only as hard
   links of one file.  In steps: ln gives the entry it creates the inode
   number of its source and issues no number; mkdir, touch, ln -s and mkfs
   give the entry they create the number of the counter, which lies above
   every number held by an entry and which no step, mkfs included, lowers;
   no entry that stays in the tree changes its number; entries that share a
   number are neither directories nor created by anything but ln. *)
C26_InodeIdentity ==
    /\ [](Running => /\ \A e \in TreeEntries : mem[e].inode < next_inode
                     /\ \A e, f \in TreeEntries :
                           (e # f /\ mem[e].inode = mem[f].inode)
                              => mem[e].is_directory = 0 /\ mem[f].is_directory = 0)
    /\ [][status' = "running"
          => LET new == TreeEntries' \ (IF last'.cmd = "mkfs" THEN {} ELSE TreeEntries)
                 src == resolve_path(Cur, last'.p1).r
             IN /\ next_inode' >= next_inode
                /\ last'.cmd # "mkfs"
                      => \A e \in TreeEntries \cap TreeEntries' : mem'[e].inode = mem[e].inode
                /\ (last'.cmd \in {"mkdir", "touch", "ln -s", "mkfs"} /\ last'.res = "ok")
                      => /\ Cardinality(new) = 1
                         /\ \A n \in new : mem'[n].inode = next_inode
                         /\ next_inode' = next_inode + 1
                /\ (last'.cmd = "ln" /\ last'.res = "ok")
                      => /\ Cardinality(new) = 1
                         /\ \A n \in new : mem'[n].inode = mem[src].inode
                         /\ next_inode' = next_inode
                /\ (last'.cmd \notin {"mkdir", "touch", "ln -s", "mkfs", "ln"}
                    \/ last'.res # "ok")
                      => TreeEntries' \subseteq TreeEntries /\ next_inode' = next_inode]_vars

\* after a second mkfs a file and its hard link share a number that is above
\* the number of the root
C26_Witness ==
    /\ Running
    /\ last.cmd = "ln"
    /\ last.res = "ok"
    /\ mem[root].inode > 1
    /\ \E e, f \in TreeEntries :
          /\ e # f
          /\ mem[e].inode = mem[f].inode
          /\ mem[e].inode > mem[root].inode

(* Staying in place: directory a with the file a/b, made read-only, the
   symbolic link c to a or to a/b; listings of a, of c and of the current
   directory, cat and write through c; nothing is removed or moved. *)
NextStay ==
    \/ CmdMkdir({Na})
    \/ CmdCd({Na, PRoot})
    \/ CmdTouch({Nb})
    \/ CmdChmod({<<"4">>}, {Pab})
    \/ CmdLnS({Na, Pab}, {Nc})
    \/ CmdTree({<<>>, Na, Nc})
    \/ CmdCat({Nc})
    \/ CmdWrite({Nc}, {ShortText})

SpecStay == Init /\ [][NextStay]_vars

(* C27: as long as no command removes or moves an entry (SpecStay has no rm,
   rmdir or mv), the current directory is an allocated entry of the tree,
   of kind directory and no symbolic link. *)
C27_CurrentIsDirectory ==
    Running => /\ current \in TreeEntries
               /\ current \in live
               /\ mem[current].is_directory # 0
               /\ mem[current].is_symbol = 0

(* C28: cat, write, tree and tree -i, whether they succeed or fail and
   whatever path or symbolic link they are given, leave the current
   directory the entry it was. *)
C28_OnlyCdMovesCurrent ==
    [][(last'.cmd \in {"cat", "write", "tree", "tree -i"} /\ status' = "running")
       => current' = current]_vars

(* Live and Dead: file a and its symbolic links b and c; a removed and made
   again, the links read and written through. *)
NextLive ==
    \/ CmdTouch({Na})
    \/ CmdLnS({Na}, {Nb, Nc})
    \/ CmdRm({Na})
    \/ CmdChmod({<<"4">>}, {Na, Nb})
    \/ CmdCat({Nb, Nc})
    \/ CmdWrite({Nc}, {ShortText})

SpecLive == Init /\ [][NextLive]_vars

(* C29: the Live/Dead mark of a symbolic link that stays in the tree changes
   only in a step of cd, cat or write whose path resolves to that very link;
   no other command and no traversal of another link changes it. *)
C29_LazyLinkState ==
    [][status' = "running"
       => \A l \in TreeEntries \cap TreeEntries' :
             (mem[l].is_symbol # 0 /\ l \in live /\ last'.cmd # "mkfs"
              /\ mem'[l].is_symbol # mem[l].is_symbol)
                => /\ last'.cmd \in {"cd", "cat", "write"}
                   /\ resolve_path(Cur, last'.p1).r = l]_vars

\* cat has just marked a symbolic link Dead, and another link to the same
\* removed target is still marked Live
C29_Witness ==
    /\ Running
    /\ last.cmd = "cat"
    /\ \E l, k \in TreeEntries :
          /\ mem[k].name = last.p1
          /\ mem[k].is_symbol = 2
          /\ mem[l].is_symbol = 1
          /\ mem[l].origin = mem[k].origin
          /\ mem[l].origin \notin TreeEntries

(* Through a link: directory a, its symbolic link b, file c made in the
   root or in a, moved to b/c and read as b/c. *)
Pbc == <<"b", "/", "c">>

NextThrough ==
    \/ CmdMkdir({Na})
    \/ CmdCd({Na, PRoot})
    \/ CmdTouch({Nc})
    \/ CmdLnS({Na}, {Nb})
    \/ CmdMv({Nc}, {Pbc})
    \/ CmdCat({Pbc})

SpecThrough == Init /\ [][NextThrough]_vars

\* the entry the first k segments of path lead to
PrefixEntry(path, k) ==
    resolve_loop(Cur, IF IsAbsolute(path) THEN root ELSE current, NULL,
                 SubSeq(Tokens(path), 1, k)).r

(* C30: a path in which a segment before the last names a symbolic link
   does not resolve: the resolver goes through no symbolic link, also not a
   Live link to a directory that holds the next segment. *)
C30_NoLinkMidPath ==
    (Running /\ CurrentInTree)
       => \A path \in {Pbc, Pab} :
             \A k \in 1..(Len(Tokens(path)) - 1) :
                LET e == PrefixEntry(path, k)
                IN (e # NULL /\ mem[e].is_symbol # 0) => resolve_path(Cur, path).r = NULL

(* -------------------------------- fsck --------------------------------- *)
\* fsck_helper(entry): the numbers it adds to repertoires and fichiers.
\* fsck_list is its while loop over the children L of a directory, from the
\* i-th on.  fuel bounds the depth of the recursion (a directory below
\* itself: the stack overflows).
RECURSIVE fsck_helper(_, _, _)
RECURSIVE fsck_list(_, _, _, _)
fsck_list(s, L, i, fuel) ==
    IF i > Len(L) THEN [repertoires |-> 0, fichiers |-> 0, ub |-> FALSE, fault |-> "none"]
    ELSE LET here == fsck_helper(s, L[i], fuel)
             rest == fsck_list(s, L, i + 1, fuel)
         IN [repertoires |-> here.repertoires + rest.repertoires,
             fichiers |-> here.fichiers + rest.fichiers,
             ub |-> here.ub \/ rest.ub,
             fault |-> IF here.fault # "none" THEN here.fault ELSE rest.fault]

fsck_helper(s, entry, fuel) ==
    IF entry = NULL THEN [repertoires |-> 0, fichiers |-> 0, ub |-> FALSE, fault |-> "none"]
    ELSE IF fuel = 0 THEN [repertoires |-> 0, fichiers |-> 0, ub |-> FALSE, fault |-> "crash"]
    ELSE IF s.mem[entry].is_directory # 0
    THEN LET L == ChildList(s, entry)
             w == fsck_list(s, L, 1, fuel - 1)
         IN IF Len(L) > MaxEntries
            THEN [repertoires |-> 0, fichiers |-> 0, ub |-> FALSE, fault |-> "hang"]
            ELSE [w EXCEPT !.repertoires = @ + 1, !.ub = @ \/ entry \notin s.live]
    ELSE [repertoires |-> 0, fichiers |-> 1, ub |-> entry \notin s.live, fault |-> "none"]

\* fsck_helper that passes over symbolic links without counting them
fs_fsck_skips_links(s) ==
    LET T == subtree(s, s.root, MaxEntries + 1)
    IN Done(s, "ok",
            <<[repertoires |-> Cardinality({e \in T : s.mem[e].is_symbol = 0
                                                      /\ s.mem[e].is_directory # 0}),
               fichiers |-> Cardinality({e \in T : s.mem[e].is_symbol = 0
                                                   /\ s.mem[e].is_directory = 0})]>>,
            FALSE)

\* out: the two numbers of the line "FSCK : Repertoires : %d, Fichiers : %d"
fs_fsck(s) ==
    LET w == fsck_helper(s, s.root, MaxEntries + 1)
    IN IF w.fault # "none" THEN Fault(s, w.fault, w.ub)
       ELSE Done(s, "ok", <<[repertoires |-> w.repertoires, fichiers |-> w.fichiers]>>, w.ub)

CmdFsck == Turn(Command("fsck", <<>>, <<>>, <<>>, 0), fs_fsck(Cur))

(* Census: directory a, file b made in the root or in a, its hard link c,
   the symbolic link c to a or to b; names removed. *)
NextFsck ==
    \/ CmdMkdir({Na})
    \/ CmdCd({Na, PRoot})
    \/ CmdTouch({Nb})
    \/ CmdLn({Nb}, {Nc})
    \/ CmdLnS({Na, Nb}, {Nc})
    \/ CmdRm({Nc})
    \/ CmdFsck

SpecFsck == Init /\ [][NextFsck]_vars

\* the entries of the tree that are no symbolic link, and the symbolic links
Plain == {e \in TreeEntries : mem[e].is_symbol = 0}

Links == {e \in TreeEntries : mem[e].is_symbol # 0}

(* C31: fsck changes nothing and reports as directories the directories of
   the tree (the root among them) plus the symbolic links made for a
   directory, and as files the names of files (each hard-link name is one)
   plus the symbolic links made for a file; a symbolic link has, from ln -s
   on and as long as it is in the tree, the kind its target had when the
   link was made. *)
C31_FsckCensus ==
    /\ [][(last'.cmd = "fsck" /\ CurrentInTree)
          => /\ status' = "running"
             /\ last'.res = "ok"
             /\ NothingChanged
             /\ last'.out =
                   <<[repertoires |->
                         Cardinality({e \in Plain : mem[e].is_directory # 0})
                         + Cardinality({e \in Links : mem[e].is_directory # 0}),
                      fichiers |->
                         Cardinality({e \in Plain : mem[e].is_directory = 0})
                         + Cardinality({e \in Links : mem[e].is_directory = 0})]>>]_vars
    /\ [][(status' = "running" /\ last'.cmd = "ln -s" /\ last'.res = "ok")
          => \A l \in Links' \ TreeEntries :
                mem'[l].is_directory = mem[resolve_path(Cur, last'.p1).r].is_directory]_vars
    /\ [][status' = "running"
          => \A l \in Links \cap Links' : mem'[l].is_directory = mem[l].is_directory]_vars

\* fsck has counted a symbolic link to a directory among the directories,
\* next to the root and the directory, and a file among the files
C31_Witness ==
    /\ Running
    /\ last.cmd = "fsck"
    /\ \E l \in Links : mem[l].is_directory # 0
    /\ last.out[1].repertoires = 3
    /\ last.out[1].fichiers >= 1

\* the file a write command on path opens: the entry fs_open finds for the
\* name in the current directory, for a symbolic link the entry it finds for
\* the name of the link's target in the directory of that target
WrittenFile(path) ==
    LET file == resolve_path(Cur, path).r
        o == mem[file].origin
    IN IF file = NULL THEN NULL
       ELSE IF mem[file].is_symbol # 0
            THEN (IF o = NULL THEN NULL ELSE find_entry(Cur, mem[o].parent, mem[o].name).r)
       ELSE find_entry(Cur, current, path).r

(* C32: between two commands the open-file table is empty, whether the last
   write succeeded, was refused at the open or failed in fs_write; and a
   write command that succeeds has put its text at offset 0 of the file,
   wherever earlier writes ended. *)
C32_WriteClosesDescriptor ==
    /\ [](Running => open_files = <<>>)
    /\ [][(last'.cmd = "write" /\ last'.res = "ok" /\ status' = "running")
          => LET f == WrittenFile(last'.p1)
             IN /\ f # NULL
                /\ mem'[f].content # NULL
                /\ \A k \in 1..Len(last'.text) :
                      ByteAt(bufs'[mem'[f].content], k) = last'.text[k]]_vars

\* a second write has succeeded, after a first one was closed, and the
\* table is empty again
C32_Witness ==
    /\ Running
    /\ last.cmd = "write"
    /\ last.res = "ok"
    /\ open_files = <<>>
    /\ next_fd > FirstFd + 1

(* Shared file: file a and its hard link b, the permissions of a changed,
   short and growing texts written through either name, a read. *)
NextShare ==
    \/ CmdTouch({Na})
    \/ CmdLn({Na}, {Nb})
    \/ CmdChmod({<<"4">>, <<"6">>}, {Na})
    \/ CmdWrite({Na, Nb}, {ShortText, LongText})
    \/ CmdCat({Na})

SpecShare == Init /\ [][NextShare]_vars

(* C33: chmod changes the permission bits of the name it is given and of no
   other name, the hard links of that name included; and a write through a
   hard-link name b that has its write bit is accepted whatever the bits of
   the other name a are, and its text is then the content seen through a. *)
C33_PermissionsPerName ==
    /\ [][(last'.cmd = "chmod" /\ status' = "running")
          => \A e \in TreeEntries \ {resolve_path(Cur, last'.p1).r} :
                mem'[e].perms = mem[e].perms]_vars
    /\ [][LET a == find_entry(Cur, current, Na).r
              b == find_entry(Cur, current, Nb).r
          IN (/\ last'.cmd = "write"
              /\ last'.p1 = Nb
              /\ a # NULL /\ b # NULL
              /\ mem[a].inode = mem[b].inode
              /\ (mem[b].perms \div 2) % 2 = 1)
             => /\ status' = "running"
                /\ last'.res = "ok"
                /\ ~last'.ub
                /\ mem'[a].content \in bufLive'
                /\ \A k \in 1..Len(last'.text) :
                      ByteAt(bufs'[mem'[a].content], k) = last'.text[k]]_vars

(* --------------------------------- ls ---------------------------------- *)
\* one printed entry of fs_ls, fs_ls_l or fs_ls_i: mode is "ls", "ls -l" or
\* "ls -i"; the inode is shown by ls -i, the permission bits, link count and
\* size by ls -l (0 when not shown); kind is the colour tag as in TreeLine
LsLine(s, e, mode, kind) ==
    [ind |-> 0, inode |-> IF mode = "ls -i" THEN s.mem[e].inode ELSE 0,
     name |-> s.mem[e].name, kind |-> kind,
     perms |-> IF mode = "ls -l" /\ s.mem[e].is_symbol \notin {1, 2} THEN s.mem[e].perms ELSE 0,
     link_count |-> IF mode = "ls -l" /\ kind # "plain" THEN s.mem[e].link_count ELSE 0,
     size |-> IF mode = "ls -l" THEN s.mem[e].size ELSE 0]

\* the if / else if chain of the three loops
ls_kind(c) ==
    IF c.is_symbol = 1 THEN "link"
    ELSE IF c.is_symbol = 2 THEN "dead"
    ELSE IF c.is_directory # 0 THEN "dir"
    ELSE "file"

\* fs_ls(arg), fs_ls_l(arg), fs_ls_i(arg): has_arg is FALSE for arg == NULL
ls_any(s, arg, has_arg, mode) ==
    LET r == IF has_arg THEN resolve_path(s, arg)
             ELSE [r |-> s.current, parent |-> NULL, ub |-> FALSE, hang |-> FALSE]
        cible == r.r
        L == ChildList(s, cible)
    IN IF r.hang THEN Fault(s, "hang", r.ub)
       ELSE IF cible = NULL
       THEN IF has_arg THEN Done(s, "NotFound", <<>>, r.ub) ELSE Fault(s, "crash", FALSE)
       ELSE IF has_arg /\ s.mem[cible].is_directory = 0
       THEN Done(s, "ok", <<LsLine(s, cible, mode, "plain")>>, r.ub \/ cible \notin s.live)
       ELSE IF Len(L) > MaxEntries THEN Fault(s, "hang", r.ub)
       ELSE Done(s, "ok", [i \in 1..Len(L) |-> LsLine(s, L[i], mode, ls_kind(s.mem[L[i]]))],
                 r.ub \/ cible \notin s.live \/ ~(Range(L) \subseteq s.live))

fs_ls(s, arg, has_arg) == ls_any(s, arg, has_arg, "ls")

fs_ls_l(s, arg, has_arg) == ls_any(s, arg, has_arg, "ls -l")

fs_ls_i(s, arg, has_arg) == ls_any(s, arg, has_arg, "ls -i")

\* ls, ls -l, ls -i, each with or without a path
CmdLs(Args) ==
    \E n \in Args \cup {<<>>}, mode \in {"ls", "ls -l", "ls -i"} :
        Turn(Command(mode, n, <<>>, <<>>, 0),
             IF mode = "ls" THEN fs_ls(Cur, n, n # <<>>)
             ELSE IF mode = "ls -l" THEN fs_ls_l(Cur, n, n # <<>>)
             ELSE fs_ls_i(Cur, n, n # <<>>))

(* Kinds: a file or directory a, its symbolic links b and c, a removed, b
   read (which marks it Dead), the current directory listed five ways. *)
NextList ==
    \/ CmdTouch({Na})
    \/ CmdMkdir({Na})
    \/ CmdLnS({Na}, {Nb, Nc})
    \/ CmdRm({Na})
    \/ CmdCat({Nb})
    \/ CmdLs({})
    \/ CmdTree({})

SpecList == Init /\ [][NextList]_vars

\* the kind and link state of an entry
Class(e) ==
    IF mem[e].is_symbol = 1 THEN "Live"
    ELSE IF mem[e].is_symbol = 2 THEN "Dead"
    ELSE IF mem[e].is_directory # 0 THEN "Directory"
    ELSE "File"

\* the entry of the tree a line of a listing shows (the names of SpecList
\* are the names of one directory and of the root)
Shown(line) == CHOOSE e \in TreeEntries : mem[e].name = line.name

(* C34: in every listing (ls, ls -l, ls -i, tree, tree -i) each line carries
   one of four kind tags, and two lines that show entries of different
   kinds or link states (Live link, Dead link, directory, file) carry
   different tags: a Dead link and a Live link never carry the same tag. *)
C34_KindTagsDistinct ==
    [][(/\ last'.cmd \in {"ls", "ls -l", "ls -i", "tree", "tree -i"}
        /\ status' = "running"
        /\ last'.res = "ok"
        /\ CurrentInTree)
       => LET out == last'.out
          IN \A i, j \in 1..Len(out) :
                /\ out[i].kind \in {"link", "dead", "dir", "file"}
                /\ Class(Shown(out[i])) # Class(Shown(out[j])) => out[i].kind # out[j].kind]_vars

=============================================================================
